---- MODULE Spec2Model ----
(***************************************************************************)
(* Model of the gaze/focus capture pipeline of Gaze-Detector:              *)
(* VideoThread (src/video_thread.py) and the control operations the UI     *)
(* thread calls on it (specification Spec); the application driving the    *)
(* thread through sessions (src/focus_tracker_app.py, SpecApp, and        *)
(* SpecSession for one session from start to end); the gaze smoother and   *)
(* the saccade/fixation segmenter on their own (SpecSmoother,              *)
(* SpecSegmenter); the advice unit (src/api_thread.py, SpecAdvice).        *)
(*                                                                         *)
(* Units.  Time is in milliseconds (QDateTime has millisecond precision);  *)
(* QDateTime.secsTo yields whole seconds.  A raw gaze ratio is an integer  *)
(* number of hundredths (100 = 1.0).  A smoothed ratio, the mean of 1..10  *)
(* raw samples, is an integer number of 1/(100*RatioScale) with            *)
(* RatioScale = lcm(1..10), so that every mean is exact.  A blink ratio is *)
(* an integer number of hundredths.                                        *)
(***************************************************************************)
EXTENDS Integers, Sequences, FiniteSets, TLC

\* ------------------------------------------------------------------ bounds
MaxTicks == 2          \* the clock stops advancing after this many ticks
MaxFrames == 2         \* frames read from the camera in one run
MaxFaces == 2          \* faces the detector reports in one run

\* --------------------------------------------------------------- constants
MsPerSec == 1000
TickMs == MsPerSec \div 2        \* granularity of the modelled clock: 500 ms
RatioScale == 5 * 7 * 8 * 9      \* lcm(1..10): denominator of every smoothed ratio
None == -1             \* Python None / an unbound local, for times and ratios

HistoryLen == 10                     \* len(gaze_ratio_history) > 10 -> pop(0)
BlinkThreshold == 520                \* blinking_ratio > 5.2
RightThreshold == 45 * RatioScale    \* avg_gaze_ratio < 0.45
LeftThreshold == 550 * RatioScale    \* avg_gaze_ratio <= 5.5
gaze_change_threshold == 80 * RatioScale   \* 0.8
min_fixation_duration_tenths == 3          \* 0.3 s, in tenths of a second
saccade_confirmation_threshold == 2

\* Payloads handed to the advice unit, numbered in the order of the
\* set_focus_data calls.
MaxPayloads == 3
Payloads == 1..MaxPayloads

\* Clicks on the Generate button, numbered in their order.
MaxRequests == 2
Requests == 1..MaxRequests

\* ------------------------------------------------------------------ inputs
GazeSamples == {20, 700}             \* raw gaze ratios 0.2 and 7.0
OpenEyes == BlinkThreshold           \* blinking_ratio 5.2: not a blink
ClosedEyes == BlinkThreshold + 80    \* blinking_ratio 6.0: a blink

\* A face as the landmark predictor and the geometry utilities see it: the
\* average blink ratio of the two eyes and the average gaze ratio, which is
\* not computed for a blinking face.
Faces ==
  {[blinking_ratio |-> OpenEyes, gaze_ratio |-> g] : g \in GazeSamples}
  \cup {[blinking_ratio |-> ClosedEyes, gaze_ratio |-> None]}

RECURSIVE SeqsUpTo(_, _)
SeqsUpTo(S, n) ==
  IF n = 0 THEN {<<>>}
  ELSE LET shorter == SeqsUpTo(S, n - 1)
       IN shorter \cup {Append(s, x) : s \in {t \in shorter : Len(t) = n - 1}, x \in S}

\* What detector(gray) can return for one frame when at most n more faces
\* are to be detected.
Frames(n) == SeqsUpTo(Faces, n)

VARIABLES
  \* VideoThread fields
  running, paused, tracking,
  gaze_ratio_changes, fixation_durations, last_gaze_ratio,
  fixation_start_time, in_fixation, saccade_confirmation_count,
  is_focused, focus_start_time, distraction_start_time,
  distraction_periods, gaze_ratio_history, focus_data,
  \* VideoThread.run: position, camera handle and locals
  pc, cap, faces, is_blinking, gaze_direction, is_looking_at_screen,
  avg_gaze_ratio,
  \* the frames read and the faces detected so far
  frames_read, faces_seen,
  \* the UI thread: its position, and whether a stop() call has returned
  ui, stop_returned,
  \* signals emitted by the last step
  emitted_focus, emitted_frame,
  \* the clock and the operation performed by the last step
  now, op,
  \* FocusTrackerApp: the session flag, the record its slot stored, the
  \* records emitted by the capture thread and not yet delivered to the
  \* slot, the record handed to save_session, the buttons that are enabled,
  \* the position of end_session, the session's start and its focus periods
  session_active, app_focus_data, signal_queue, session_data, buttons,
  app_pc, session_start_time, current_focus_period_start,
  longest_focus_period,
  \* the longest focused interval, in milliseconds, that the session has
  \* closed so far
  closed_focus_ms,
  \* the looking_at_screen values fed to the tracker since the session began
  fed,
  \* every raw sample pushed to the smoother since the last reset
  pushed,
  \* every ratio handed to the segmenter while tracking since the last reset
  seg_fed,
  \* APIThread: the payload slot, the position of run(), the payload of the
  \* request being made, how often each payload was processed, the running
  \* flag, the advice strings emitted, the payloads handed over so far
  api_focus_data, api_pc, api_request, processed, api_running,
  advice_emitted, payloads_set,
  \* AdviceWidget: the generating flag, whether the Generate button is
  \* enabled, the requests issued (time of the click, whether a result has
  \* arrived), the single-shot timers still pending for each request, the
  \* fallbacks shown, the widget's clock in seconds, and whether the
  \* "initialized" message of APIThread.__init__ is still to come
  generating_advice, generate_enabled, requests, timers, fallbacks,
  widget_clock, init_message_pending,
  \* DatabaseManager: the committed database, the connection's view of it
  \* (with the changes not yet committed), the position of save_session,
  \* the record being saved, its session id, the index of the next focus
  \* point, whether every statement of the save succeeded so far, the
  \* records handed to save_session with the ids returned, and the result
  \* of the last get_session_details
  db_disk, db_conn, save_pc, save_record, save_id, save_i, save_clean,
  save_log, retrieved,
  \* FocusTrackerApp's session buffers: the focus points and the snapshots
  \* (each sample is the number of the timer tick that collected it), how
  \* many samples the session collected, whether end_session has capped
  \* the buffers
  session_focus_points, focus_data_snapshots, samples_collected,
  buffers_capped,
  \* get_blinking_ratio: the six landmarks of the eye it is called with,
  \* the ratio it returned, and its position
  eye_landmarks, blinking_ratio, eye_pc

flags == <<running, paused, tracking>>
segmenter == <<gaze_ratio_changes, fixation_durations, last_gaze_ratio,
               fixation_start_time, in_fixation, saccade_confirmation_count>>
tracker == <<is_focused, focus_start_time, distraction_start_time,
             distraction_periods, focus_data>>
locals == <<faces, is_blinking, gaze_direction, is_looking_at_screen,
            avg_gaze_ratio>>
consumed == <<frames_read, faces_seen>>
thread_state == <<flags, segmenter, tracker, gaze_ratio_history, pc, cap,
                  locals, consumed, ui, stop_returned>>
thread == <<thread_state, emitted_focus, emitted_frame>>
app == <<session_active, app_focus_data, signal_queue, session_data, buttons,
         app_pc, session_start_time, current_focus_period_start,
         longest_focus_period, closed_focus_ms, fed>>
advice == <<api_focus_data, api_pc, api_request, processed, api_running,
            advice_emitted, payloads_set>>
\* What the capture thread's own steps and the control operations on it
\* leave alone.
widget == <<generating_advice, generate_enabled, requests, timers, fallbacks,
            widget_clock, init_message_pending>>
store == <<db_disk, db_conn, save_pc, save_record, save_id, save_i,
           save_clean, save_log, retrieved>>
\* The units beside the advice unit and its widget.
buffers == <<session_focus_points, focus_data_snapshots, samples_collected,
             buffers_capped>>
eye == <<eye_landmarks, blinking_ratio, eye_pc>>
rest == <<store, buffers, eye>>
\* The units beside the capture thread and the application.
units == <<advice, widget, rest>>
\* The capture thread, the application and what is remembered about them.
capture == <<thread, now, op, app, pushed, seg_fed>>
others == <<app, pushed, seg_fed, units>>
vars == <<thread, now, op, others>>

\* ----------------------------------------------------------- pure helpers
Abs(x) == IF x < 0 THEN -x ELSE x

Min(a, b) == IF a < b THEN a ELSE b

Max(a, b) == IF a < b THEN b ELSE a

RECURSIVE Sum(_)
Sum(s) == IF s = <<>> THEN 0 ELSE Head(s) + Sum(Tail(s))

RECURSIVE GCD(_, _)
GCD(a, b) == IF b = 0 THEN a ELSE GCD(b, a % b)

\* An exact quotient n/d as a fraction in lowest terms.
Frac(n, d) == LET g == GCD(n, d) IN [num |-> n \div g, den |-> d \div g]

Zero == [num |-> 0, den |-> 1]

\* QDateTime.secsTo: whole seconds from a to b (a <= b in every use).
SecsTo(a, b) == (b - a) \div MsPerSec

\* sum(distraction_periods) / len(distraction_periods), or 0 when empty.
AvgDistraction(periods) ==
  IF periods = <<>> THEN Zero ELSE Frac(Sum(periods), Len(periods))

InitialFocusData ==
  [focused |-> TRUE, direction |-> "CENTER", blinking |-> FALSE,
   focus_duration |-> 0, distraction_count |-> 0,
   avg_distraction_time |-> Zero]

\* Mutant: the oldest sample is never dropped.
PushSample_NoEvict(history, g) == Append(history, g)

\* gaze_ratio_history.append(g); pop(0) when longer than 10.
PushSample(history, g) ==
  LET h == Append(history, g)
  IN IF Len(h) > HistoryLen THEN Tail(h) ELSE h

\* sum(history) / len(history), in units of 1/(100*RatioScale).
SmoothedRatio(history) == (Sum(history) * RatioScale) \div Len(history)

GazeDirection(avg) ==
  IF avg < RightThreshold THEN "RIGHT"
  ELSE IF RightThreshold <= avg /\ avg <= LeftThreshold THEN "CENTER"
  ELSE "LEFT"

\* blinking_ratio > 5.2
IsBlink(face) == face.blinking_ratio > BlinkThreshold

\* ------------------------------------------------------------------- Init
\* FocusTrackerApp.__init__: no session, self.focus_data = {}, only the Start
\* button enabled, no record in flight.
AppInit ==
  /\ session_active = FALSE /\ app_focus_data = <<>>
  /\ signal_queue = <<>> /\ session_data = <<>>
  /\ buttons = {"start"} /\ fed = <<>>
  /\ app_pc = "idle" /\ session_start_time = None
  /\ current_focus_period_start = None /\ longest_focus_period = 0
  /\ closed_focus_ms = 0

\* APIThread.__init__ and start(): no payload, the loop polling.
AdviceInit ==
  /\ api_focus_data = None /\ api_pc = "poll" /\ api_request = {}
  /\ processed = [p \in Payloads |-> 0] /\ api_running = TRUE
  /\ advice_emitted = <<>> /\ payloads_set = 0

\* AdviceWidget.__init__: nothing is being generated, the Generate button is
\* disabled until the model reports ready, no request yet.
WidgetInit ==
  /\ generating_advice = FALSE /\ generate_enabled = FALSE
  /\ requests = <<>> /\ timers = [r \in Requests |-> 0]
  /\ fallbacks = <<>> /\ widget_clock = 0 /\ init_message_pending = TRUE

\* create_tables: the three tables, and the counter from which AUTOINCREMENT
\* takes the next session id.
EmptyDatabase == [sessions |-> {}, points |-> <<>>, eye |-> {}, seq |-> 0]

\* DatabaseManager.__init__ on a new database file: the tables are created
\* and empty, no save is under way.
StoreInit ==
  /\ db_disk = EmptyDatabase /\ db_conn = EmptyDatabase
  /\ save_pc = "idle" /\ save_record = <<>> /\ save_id = None
  /\ save_i = 0 /\ save_clean = TRUE /\ save_log = <<>>
  /\ retrieved = [id |-> None, details |-> [found |-> FALSE]]

\* No face has been measured yet.
EyeInit ==
  /\ eye_landmarks = <<>> /\ blinking_ratio = Zero /\ eye_pc = "idle"

\* start_session: both buffers are emptied.
BuffersInit ==
  /\ session_focus_points = <<>> /\ focus_data_snapshots = <<>>
  /\ samples_collected = 0 /\ buffers_capped = FALSE

\* The state after VideoThread.__init__ and QThread.start() (the application
\* starts the thread right after constructing it).
Init ==
  /\ AppInit /\ AdviceInit /\ WidgetInit /\ StoreInit /\ BuffersInit /\ EyeInit
  /\ pushed = <<>> /\ seg_fed = <<>>
  /\ running = TRUE /\ paused = FALSE /\ tracking = FALSE
  /\ gaze_ratio_changes = <<>> /\ fixation_durations = <<>>
  /\ last_gaze_ratio = None /\ fixation_start_time = None
  /\ in_fixation = FALSE /\ saccade_confirmation_count = 0
  /\ is_focused = TRUE /\ focus_start_time = 0
  /\ distraction_start_time = None /\ distraction_periods = <<>>
  /\ gaze_ratio_history = <<>> /\ focus_data = InitialFocusData
  /\ pc = "open" /\ cap = "closed" /\ faces = <<>>
  /\ is_blinking = FALSE /\ gaze_direction = "CENTER"
  /\ is_looking_at_screen = TRUE /\ avg_gaze_ratio = None
  /\ frames_read = 0 /\ faces_seen = 0
  /\ ui = "idle" /\ stop_returned = FALSE
  /\ emitted_focus = <<>> /\ emitted_frame = FALSE
  /\ now = 0 /\ op = "init"

\* ------------------------------------------------- the focus state tracker
\* distraction_periods after the distracted -> focused branch.
ClosedPeriods(periods, start, t) ==
  IF start # None THEN Append(periods, SecsTo(start, t)) ELSE periods

\* Mutant: the count grows on every processed frame.
CountAfter_Always(count, opening) == count + 1

\* focus_data["distraction_count"] after the frame: += 1 on focused -> distracted.
CountAfter(count, opening) == IF opening THEN count + 1 ELSE count

\* Mutant: the elapsed time is reported while distracted too.
FocusDuration_IgnoresFocus(focused, start, t) == SecsTo(start, t)

\* focus_duration of the record.
FocusDuration(focused, start, t) == IF focused THEN SecsTo(start, t) ELSE 0

\* update_focus_data past its test of tracking and paused: the transition
\* branches, the record and its emission.
TrackerUpdate(looking, blinking, direction) ==
  LET closing == looking /\ ~is_focused
      opening == ~looking /\ is_focused
      periods == IF closing
                 THEN ClosedPeriods(distraction_periods, distraction_start_time, now)
                 ELSE distraction_periods
      dstart == IF closing THEN None
                ELSE IF opening THEN now ELSE distraction_start_time
      focused == IF closing THEN TRUE
                 ELSE IF opening THEN FALSE ELSE is_focused
      fstart == IF closing THEN now ELSE focus_start_time
      data == [focused |-> looking,
               direction |-> direction,
               blinking |-> blinking,
               focus_duration |-> FocusDuration(focused, fstart, now),
               distraction_count |->
                 CountAfter(focus_data.distraction_count, opening),
               avg_distraction_time |-> AvgDistraction(periods)]
  IN /\ distraction_periods' = periods
     /\ distraction_start_time' = dstart
     /\ is_focused' = focused
     /\ focus_start_time' = fstart
     /\ focus_data' = data
     /\ emitted_focus' = <<data>>

\* update_focus_data(is_looking_at_screen, is_blinking, gaze_direction)
UpdateFocusData(looking, blinking, direction) ==
  IF ~tracking \/ paused
  THEN /\ UNCHANGED tracker
       /\ emitted_focus' = <<>>
  ELSE TrackerUpdate(looking, blinking, direction)

\* -------------------------------------------- the saccade/fixation segmenter
\* Mutant: the new ratio itself, not its distance to the last ratio, is
\* compared with the threshold.
Segment_AbsoluteRatio(gaze_ratio) ==
  IF last_gaze_ratio = None
  THEN /\ last_gaze_ratio' = gaze_ratio
       /\ fixation_start_time' = now
       /\ in_fixation' = TRUE
       /\ UNCHANGED <<gaze_ratio_changes, fixation_durations,
                      saccade_confirmation_count>>
  ELSE LET ratio_change == Abs(gaze_ratio)
           over == ratio_change > gaze_change_threshold
           count == saccade_confirmation_count + 1
           confirmed == over /\ count >= saccade_confirmation_threshold
           fixation_duration == SecsTo(fixation_start_time, now)
       IN /\ gaze_ratio_changes' =
               IF confirmed THEN Append(gaze_ratio_changes, ratio_change)
               ELSE gaze_ratio_changes
          /\ fixation_durations' =
               IF /\ confirmed /\ in_fixation
                  /\ fixation_duration * 10 >= min_fixation_duration_tenths
               THEN Append(fixation_durations, fixation_duration)
               ELSE fixation_durations
          /\ fixation_start_time' = IF confirmed THEN now ELSE fixation_start_time
          /\ in_fixation' = IF confirmed THEN TRUE ELSE in_fixation
          /\ saccade_confirmation_count' =
               IF over /\ ~confirmed THEN count ELSE 0
          /\ last_gaze_ratio' = gaze_ratio

\* Mutant: the confirmation count is not reset when a saccade is recorded.
Segment_KeepsCount(gaze_ratio) ==
  IF last_gaze_ratio = None
  THEN /\ last_gaze_ratio' = gaze_ratio
       /\ fixation_start_time' = now
       /\ in_fixation' = TRUE
       /\ UNCHANGED <<gaze_ratio_changes, fixation_durations,
                      saccade_confirmation_count>>
  ELSE LET ratio_change == Abs(gaze_ratio - last_gaze_ratio)
           over == ratio_change > gaze_change_threshold
           count == saccade_confirmation_count + 1
           confirmed == over /\ count >= saccade_confirmation_threshold
           fixation_duration == SecsTo(fixation_start_time, now)
       IN /\ gaze_ratio_changes' =
               IF confirmed THEN Append(gaze_ratio_changes, ratio_change)
               ELSE gaze_ratio_changes
          /\ fixation_durations' =
               IF /\ confirmed /\ in_fixation
                  /\ fixation_duration * 10 >= min_fixation_duration_tenths
               THEN Append(fixation_durations, fixation_duration)
               ELSE fixation_durations
          /\ fixation_start_time' = IF confirmed THEN now ELSE fixation_start_time
          /\ in_fixation' = IF confirmed THEN TRUE ELSE in_fixation
          /\ saccade_confirmation_count' = IF over THEN count ELSE 0
          /\ last_gaze_ratio' = gaze_ratio

\* The body of track_gaze_changes below its "if not self.tracking: return".
Segment(gaze_ratio) ==
  IF last_gaze_ratio = None
  THEN /\ last_gaze_ratio' = gaze_ratio
       /\ fixation_start_time' = now
       /\ in_fixation' = TRUE
       /\ UNCHANGED <<gaze_ratio_changes, fixation_durations,
                      saccade_confirmation_count>>
  ELSE LET ratio_change == Abs(gaze_ratio - last_gaze_ratio)
           over == ratio_change > gaze_change_threshold
           count == saccade_confirmation_count + 1
           confirmed == over /\ count >= saccade_confirmation_threshold
           fixation_duration == SecsTo(fixation_start_time, now)
       IN /\ gaze_ratio_changes' =
               IF confirmed THEN Append(gaze_ratio_changes, ratio_change)
               ELSE gaze_ratio_changes
          /\ fixation_durations' =
               IF /\ confirmed /\ in_fixation
                  /\ fixation_duration * 10 >= min_fixation_duration_tenths
               THEN Append(fixation_durations, fixation_duration)
               ELSE fixation_durations
          /\ fixation_start_time' = IF confirmed THEN now ELSE fixation_start_time
          /\ in_fixation' = IF confirmed THEN TRUE ELSE in_fixation
          /\ saccade_confirmation_count' =
               IF over /\ ~confirmed THEN count ELSE 0
          /\ last_gaze_ratio' = gaze_ratio

\* Mutant: the segmenter runs whether tracking or not.
TrackGazeChanges_Ungated(gaze_ratio) == Segment(gaze_ratio)

\* track_gaze_changes(gaze_ratio)
TrackGazeChanges(gaze_ratio) ==
  IF ~tracking THEN UNCHANGED segmenter ELSE Segment(gaze_ratio)

\* ------------------------------------------------------- the capture loop
\* The process is alive: an exception that escapes run() ends it (PyQt5
\* calls qFatal() on an unhandled Python exception; no excepthook is set).
Alive == pc # "aborted"

\* run(): cv2.VideoCapture(1); return when it is not opened.
OpenCamera ==
  /\ pc = "open"
  /\ \E opened \in BOOLEAN :
       IF opened THEN cap' = "open" /\ pc' = "loop"
       ELSE cap' = "closed" /\ pc' = "done"
  /\ emitted_focus' = <<>> /\ emitted_frame' = FALSE /\ op' = "open_camera"
  /\ UNCHANGED <<flags, segmenter, tracker, gaze_ratio_history, locals,
                 consumed, ui, stop_returned, now>>

\* Mutant: run() returns at the end of the loop without cap.release().
LoopExit_NoRelease ==
  /\ pc = "loop" /\ ~running
  /\ pc' = "done"
  /\ emitted_focus' = <<>> /\ emitted_frame' = FALSE /\ op' = "loop_exit"
  /\ UNCHANGED <<flags, segmenter, tracker, gaze_ratio_history, cap, locals,
                 consumed, ui, stop_returned, now>>

\* while self.running: fails, the loop is left.
LoopExit ==
  /\ pc = "loop" /\ ~running
  /\ pc' = "release"
  /\ emitted_focus' = <<>> /\ emitted_frame' = FALSE /\ op' = "loop_exit"
  /\ UNCHANGED <<flags, segmenter, tracker, gaze_ratio_history, cap, locals,
                 consumed, ui, stop_returned, now>>

\* Mutant: a failed cap.read() is retried in the next iteration.
ReadFrameOf_Retries(frame_budget, face_budget, per_frame) ==
  /\ pc = "loop" /\ running /\ ~paused
  /\ frames_read < frame_budget
  /\ frames_read' = frames_read + 1
  /\ \E ret \in BOOLEAN :
       IF ~ret
       THEN /\ pc' = "loop"
            /\ UNCHANGED <<locals, faces_seen>>
       ELSE \E detected \in Frames(Min(per_frame, face_budget - faces_seen)) :
              /\ faces' = detected
              /\ faces_seen' = faces_seen + Len(detected)
              /\ is_blinking' = FALSE
              /\ gaze_direction' = "CENTER"
              /\ is_looking_at_screen' = TRUE
              /\ UNCHANGED avg_gaze_ratio
              /\ pc' = IF detected = <<>> THEN "noface" ELSE "faces"
  /\ emitted_focus' = <<>> /\ emitted_frame' = FALSE /\ op' = "read_frame"
  /\ UNCHANGED <<flags, segmenter, tracker, gaze_ratio_history, cap, ui,
                 stop_returned, now>>

\* One iteration up to the face loop: running and not paused, cap.read(),
\* the detector, and the defaults of the three per-frame locals.  While
\* paused the iteration only waits and starts over.  The camera delivers at
\* most frame_budget frames and the detector reports one of `detections`.
ReadFrameFrom(frame_budget, detections) ==
  /\ pc = "loop" /\ running /\ ~paused
  /\ frames_read < frame_budget
  /\ frames_read' = frames_read + 1
  /\ \E ret \in BOOLEAN :
       IF ~ret
       THEN /\ pc' = "release"
            /\ UNCHANGED <<locals, faces_seen>>
       ELSE \E detected \in detections :
              /\ faces' = detected
              /\ faces_seen' = faces_seen + Len(detected)
              /\ is_blinking' = FALSE
              /\ gaze_direction' = "CENTER"
              /\ is_looking_at_screen' = TRUE
              /\ UNCHANGED avg_gaze_ratio
              /\ pc' = IF detected = <<>> THEN "noface" ELSE "faces"
  /\ emitted_focus' = <<>> /\ emitted_frame' = FALSE /\ op' = "read_frame"
  /\ UNCHANGED <<flags, segmenter, tracker, gaze_ratio_history, cap, ui,
                 stop_returned, now>>

\* The iteration with a detector that reports at most face_budget faces in
\* all and per_frame faces in one frame.
ReadFrameOf(frame_budget, face_budget, per_frame) ==
  ReadFrameFrom(frame_budget, Frames(Min(per_frame, face_budget - faces_seen)))

\* The iteration under the bounds of Spec: any number of the remaining faces
\* in one frame.
ReadFrame == ReadFrameOf(MaxFrames, MaxFaces, MaxFaces)

\* The body of "for face in faces" for the next face.  After the last face
\* the frame is emitted and the iteration ends.
ProcessFace ==
  /\ pc = "faces" /\ faces # <<>>
  /\ LET face == Head(faces)
         blink == IsBlink(face)
         history == IF blink THEN gaze_ratio_history
                    ELSE PushSample(gaze_ratio_history, face.gaze_ratio)
         avg == IF blink THEN avg_gaze_ratio ELSE SmoothedRatio(history)
         direction == IF blink THEN gaze_direction ELSE GazeDirection(avg)
         looking == IF blink \/ direction = "CENTER" THEN is_looking_at_screen
                    ELSE FALSE
     IN /\ is_blinking' = (is_blinking \/ blink)
        /\ IF avg = None
           THEN \* line 234 reads avg_gaze_ratio before any assignment
                /\ pc' = "aborted"
                /\ emitted_focus' = <<>> /\ emitted_frame' = FALSE
                /\ UNCHANGED <<segmenter, tracker, gaze_ratio_history, faces,
                               gaze_direction, is_looking_at_screen,
                               avg_gaze_ratio>>
           ELSE /\ gaze_ratio_history' = history
                /\ avg_gaze_ratio' = avg
                /\ gaze_direction' = direction
                /\ is_looking_at_screen' = looking
                /\ TrackGazeChanges(avg)
                /\ UpdateFocusData(looking, is_blinking \/ blink, direction)
                /\ faces' = Tail(faces)
                /\ emitted_frame' = (Tail(faces) = <<>>)
                /\ pc' = IF Tail(faces) = <<>> THEN "loop" ELSE "faces"
  /\ op' = "face"
  /\ UNCHANGED <<flags, cap, consumed, ui, stop_returned, now>>

\* Mutant: a frame without a face is fed as the defaults (focused, CENTER).
NoFace_FedFocused ==
  /\ pc = "noface"
  /\ UpdateFocusData(TRUE, FALSE, "CENTER")
  /\ emitted_frame' = TRUE
  /\ pc' = "loop"
  /\ op' = "no_face"
  /\ UNCHANGED <<flags, segmenter, gaze_ratio_history, cap, locals,
                 consumed, ui, stop_returned, now>>

\* "if not faces": the tracker is fed False / UNKNOWN and the frame emitted.
NoFace ==
  /\ pc = "noface"
  /\ UpdateFocusData(FALSE, FALSE, "UNKNOWN")
  /\ emitted_frame' = TRUE
  /\ pc' = "loop"
  /\ op' = "no_face"
  /\ UNCHANGED <<flags, segmenter, gaze_ratio_history, cap, locals,
                 consumed, ui, stop_returned, now>>

\* cap.release() after the loop.
Release ==
  /\ pc = "release"
  /\ cap' = "released"
  /\ pc' = "done"
  /\ emitted_focus' = <<>> /\ emitted_frame' = FALSE /\ op' = "release"
  /\ UNCHANGED <<flags, segmenter, tracker, gaze_ratio_history, locals,
                 consumed, ui, stop_returned, now>>

\* ------------------------------------- control operations (the UI thread)
\* The handlers run one at a time: the steps of one iteration of run() (the
\* read, then one step per face) are not interleaved with a control
\* operation or a tick of the clock.
MidFrame == pc \in {"faces", "noface"}

\* The UI thread can call an operation: stop() blocks it in wait().
UICanCall == Alive /\ ui = "idle" /\ ~MidFrame

\* Mutant: start_tracking() only sets the flag.
StartTracking_NoRestart ==
  /\ UICanCall
  /\ tracking' = TRUE
  /\ emitted_focus' = <<focus_data>> /\ emitted_frame' = FALSE
  /\ op' = "start_tracking"
  /\ UNCHANGED <<running, paused, segmenter, tracker, gaze_ratio_history, pc,
                 cap, locals, consumed, ui, stop_returned, now>>

\* start_tracking()
StartTracking ==
  /\ UICanCall
  /\ tracking' = TRUE
  /\ IF ~is_focused
     THEN /\ is_focused' = TRUE
          /\ focus_start_time' = now
          /\ distraction_start_time' = None
     ELSE UNCHANGED <<is_focused, focus_start_time, distraction_start_time>>
  /\ emitted_focus' = <<focus_data>> /\ emitted_frame' = FALSE
  /\ op' = "start_tracking"
  /\ UNCHANGED <<running, paused, segmenter, distraction_periods, focus_data,
                 gaze_ratio_history, pc, cap, locals, consumed, ui,
                 stop_returned, now>>

\* pause_tracking()
PauseTracking ==
  /\ UICanCall
  /\ tracking' = FALSE
  /\ emitted_focus' = <<>> /\ emitted_frame' = FALSE
  /\ op' = "pause_tracking"
  /\ UNCHANGED <<running, paused, segmenter, tracker, gaze_ratio_history, pc,
                 cap, locals, consumed, ui, stop_returned, now>>

\* pause()
Pause ==
  /\ UICanCall
  /\ paused' = TRUE
  /\ emitted_focus' = <<>> /\ emitted_frame' = FALSE /\ op' = "pause"
  /\ UNCHANGED <<running, tracking, segmenter, tracker, gaze_ratio_history,
                 pc, cap, locals, consumed, ui, stop_returned, now>>

\* resume()
Resume ==
  /\ UICanCall
  /\ paused' = FALSE
  /\ emitted_focus' = <<>> /\ emitted_frame' = FALSE /\ op' = "resume"
  /\ UNCHANGED <<running, tracking, segmenter, tracker, gaze_ratio_history,
                 pc, cap, locals, consumed, ui, stop_returned, now>>

\* Mutant: the confirmation streak and the last ratio survive the reset.
ResetEyeMovementData_KeepsStreak ==
  /\ gaze_ratio_changes' = <<>>
  /\ fixation_durations' = <<>>
  /\ fixation_start_time' = None
  /\ in_fixation' = FALSE
  /\ UNCHANGED <<last_gaze_ratio, saccade_confirmation_count>>

\* reset_eye_movement_data()
ResetEyeMovementData ==
  /\ gaze_ratio_changes' = <<>>
  /\ fixation_durations' = <<>>
  /\ last_gaze_ratio' = None
  /\ fixation_start_time' = None
  /\ in_fixation' = FALSE
  /\ saccade_confirmation_count' = 0

\* Mutant: reset() flips the tracking flag instead of clearing it.
Reset_TogglesTracking ==
  /\ UICanCall
  /\ focus_data' = InitialFocusData
  /\ ResetEyeMovementData
  /\ tracking' = ~tracking
  /\ is_focused' = TRUE
  /\ focus_start_time' = now
  /\ distraction_start_time' = None
  /\ distraction_periods' = <<>>
  /\ gaze_ratio_history' = <<>>
  /\ emitted_focus' = <<InitialFocusData>> /\ emitted_frame' = FALSE
  /\ op' = "reset"
  /\ UNCHANGED <<running, paused, pc, cap, locals, consumed, ui,
                 stop_returned, now>>

\* reset()
Reset ==
  /\ UICanCall
  /\ focus_data' = InitialFocusData
  /\ ResetEyeMovementData
  /\ tracking' = FALSE
  /\ is_focused' = TRUE
  /\ focus_start_time' = now
  /\ distraction_start_time' = None
  /\ distraction_periods' = <<>>
  /\ gaze_ratio_history' = <<>>
  /\ emitted_focus' = <<InitialFocusData>> /\ emitted_frame' = FALSE
  /\ op' = "reset"
  /\ UNCHANGED <<running, paused, pc, cap, locals, consumed, ui,
                 stop_returned, now>>

\* stop(): self.running = False, then self.wait() blocks the caller.
Stop ==
  /\ UICanCall
  /\ running' = FALSE
  /\ ui' = "in_wait"
  /\ emitted_focus' = <<>> /\ emitted_frame' = FALSE /\ op' = "stop"
  /\ UNCHANGED <<paused, tracking, segmenter, tracker, gaze_ratio_history,
                 pc, cap, locals, consumed, stop_returned, now>>

\* QThread.wait() returns once run() has returned.
StopReturn ==
  /\ Alive /\ ui = "in_wait"
  /\ pc = "done"
  /\ ui' = "idle"
  /\ stop_returned' = TRUE
  /\ emitted_focus' = <<>> /\ emitted_frame' = FALSE /\ op' = "stop_return"
  /\ UNCHANGED <<flags, segmenter, tracker, gaze_ratio_history, pc, cap,
                 locals, consumed, now>>

\* ---------------------------------------------------------------- the clock
Tick ==
  /\ Alive /\ ~MidFrame
  /\ now < MaxTicks * TickMs
  /\ now' = now + TickMs
  /\ emitted_focus' = <<>> /\ emitted_frame' = FALSE /\ op' = "tick"
  /\ UNCHANGED <<flags, segmenter, tracker, gaze_ratio_history, pc, cap,
                 locals, consumed, ui, stop_returned>>

\* The capture thread, the control operations called on it at any time and
\* the clock.
Next ==
  \/ OpenCamera /\ UNCHANGED others
  \/ LoopExit /\ UNCHANGED others
  \/ ReadFrame /\ UNCHANGED others
  \/ ProcessFace /\ UNCHANGED others
  \/ NoFace /\ UNCHANGED others
  \/ Release /\ UNCHANGED others
  \/ StartTracking /\ UNCHANGED others
  \/ PauseTracking /\ UNCHANGED others
  \/ Pause /\ UNCHANGED others
  \/ Resume /\ UNCHANGED others
  \/ Reset /\ UNCHANGED others
  \/ Stop /\ UNCHANGED others
  \/ StopReturn /\ UNCHANGED others
  \/ Tick /\ UNCHANGED others

Spec == Init /\ [][Next]_vars

\* =========================================== the application and its sessions
\* FocusTrackerApp (src/focus_tracker_app.py) driving the capture thread.
MaxQueue == 1          \* emitted records waiting for the slot

\* What a slot receives for an emitted record.  focus_data_signal is declared
\* pyqtSignal(dict): PyQt5 marshals the argument into a QVariantMap, so the
\* slot gets a new dict with the content the record had when it was emitted.
\* Mutant: the receiver is handed the thread's own dict object.
Marshal_ByReference(data) == [by_value |-> FALSE, val |-> data]

Marshal(data) == [by_value |-> TRUE, val |-> data]

\* The content a reader finds in a received record.
Fields(m) == IF m.by_value THEN m.val ELSE focus_data

\* The records a step of the capture thread emitted are posted to the UI
\* thread (queued connection).
Posted ==
  /\ signal_queue' =
       IF emitted_focus' = <<>> THEN signal_queue
       ELSE Append(signal_queue, Marshal(emitted_focus'[1]))
  /\ UNCHANGED <<session_active, app_focus_data, session_data, buttons,
                 app_pc, session_start_time, current_focus_period_start,
                 longest_focus_period, closed_focus_ms>>

AppOpenCamera ==
  OpenCamera /\ Posted /\ UNCHANGED <<fed, pushed, seg_fed, units>>

\* The camera shows at most one face in a frame, and the capture thread is
\* at most MaxQueue records ahead of the slot.
AppReadFrame ==
  /\ Len(signal_queue) < MaxQueue
  /\ ReadFrameOf(MaxFrames, MaxFaces, 1)
  /\ Posted /\ UNCHANGED <<fed, pushed, seg_fed, units>>

AppProcessFace ==
  ProcessFace /\ Posted /\ UNCHANGED <<fed, pushed, seg_fed, units>>

AppNoFace == NoFace /\ Posted /\ UNCHANGED <<fed, pushed, seg_fed, units>>

AppTick == Tick /\ UNCHANGED others

\* FocusTrackerApp.update_focus_data(m) while session_active is `active`: the
\* record is stored and the focus periods of the session are tracked.  (The
\* widgets it refreshes are not modelled.)
UpdateFocusDataSlot_Overwrite(m, active, period_start, longest) ==
  /\ app_focus_data' = <<m>>
  /\ IF active /\ Fields(m).focused /\ period_start = None
     THEN /\ current_focus_period_start' = now
          /\ longest_focus_period' = longest
     ELSE IF active /\ ~Fields(m).focused /\ period_start # None
     THEN /\ longest_focus_period' = SecsTo(period_start, now)
          /\ current_focus_period_start' = None
     ELSE /\ current_focus_period_start' = period_start
          /\ longest_focus_period' = longest

UpdateFocusDataSlot(m, active, period_start, longest) ==
  /\ app_focus_data' = <<m>>
  /\ IF active /\ Fields(m).focused /\ period_start = None
     THEN /\ current_focus_period_start' = now
          /\ longest_focus_period' = longest
     ELSE IF active /\ ~Fields(m).focused /\ period_start # None
     THEN /\ longest_focus_period' = Max(longest, SecsTo(period_start, now))
          /\ current_focus_period_start' = None
     ELSE /\ current_focus_period_start' = period_start
          /\ longest_focus_period' = longest

\* The focused interval that began at period_start is closed now.
FocusIntervalCloses(period_start) ==
  closed_focus_ms' = Max(closed_focus_ms, now - period_start)

\* The slot runs for the oldest record posted by the capture thread.
Deliver ==
  /\ Alive /\ signal_queue # <<>>
  /\ UpdateFocusDataSlot(Head(signal_queue), session_active,
                         current_focus_period_start, longest_focus_period)
  /\ IF /\ session_active /\ ~Fields(Head(signal_queue)).focused
        /\ current_focus_period_start # None
     THEN FocusIntervalCloses(current_focus_period_start)
     ELSE UNCHANGED closed_focus_ms
  /\ signal_queue' = Tail(signal_queue)
  /\ emitted_focus' = <<>> /\ emitted_frame' = FALSE /\ op' = "deliver"
  /\ UNCHANGED <<thread_state, now, session_active, session_data, buttons,
                 app_pc, session_start_time, fed, pushed, seg_fed, units>>

\* start_session() with no session active: a new session begins and
\* start_tracking() runs on the UI thread; the record it emits reaches the
\* slot at once (emitter and receiver are in the same thread).
StartSession ==
  /\ "start" \in buttons /\ app_pc = "idle" /\ ~session_active
  /\ session_active' = TRUE
  /\ session_start_time' = now
  /\ StartTracking
  /\ UpdateFocusDataSlot(Marshal(focus_data), TRUE, None, 0)
  /\ closed_focus_ms' = 0
  /\ buttons' = {"pause", "end"}
  /\ fed' = <<>>
  /\ UNCHANGED <<signal_queue, session_data, app_pc, pushed, seg_fed, units>>

\* start_session() with a session active (the button reads "Resume").
ResumeSession ==
  /\ "start" \in buttons /\ app_pc = "idle" /\ session_active
  /\ Resume
  /\ current_focus_period_start' =
       IF Fields(app_focus_data[1]).focused THEN now
       ELSE current_focus_period_start
  /\ buttons' = (buttons \ {"start"}) \cup {"pause"}
  /\ UNCHANGED <<session_active, app_focus_data, signal_queue, session_data,
                 app_pc, session_start_time, longest_focus_period,
                 closed_focus_ms, fed, pushed, seg_fed, units>>

\* pause_session()
PauseSession ==
  /\ "pause" \in buttons /\ app_pc = "idle" /\ session_active
  /\ PauseTracking
  /\ IF current_focus_period_start # None
     THEN /\ longest_focus_period' =
               Max(longest_focus_period,
                   SecsTo(current_focus_period_start, now))
          /\ current_focus_period_start' = None
          /\ FocusIntervalCloses(current_focus_period_start)
     ELSE UNCHANGED <<current_focus_period_start, longest_focus_period,
                      closed_focus_ms>>
  /\ buttons' = (buttons \ {"pause"}) \cup {"start"}
  /\ UNCHANGED <<session_active, app_focus_data, signal_queue, session_data,
                 app_pc, session_start_time, fed, pushed, seg_fed, units>>

\* focus_time / session_duration * 100, or 0 for a session of 0 seconds.
FocusPercentage(focus_time, session_duration) ==
  IF session_duration > 0 THEN Frac(focus_time * 100, session_duration)
  ELSE Zero

\* end_session() up to the call of save_session: tracking is paused and the
\* session record is assembled from the record the slot stored last.
EndSessionBegin ==
  /\ "end" \in buttons /\ app_pc = "idle" /\ session_active
  /\ PauseTracking
  /\ LET session_duration == SecsTo(session_start_time, now)
         longest == IF current_focus_period_start # None
                    THEN Max(longest_focus_period,
                             SecsTo(current_focus_period_start, now))
                    ELSE longest_focus_period
         data == Fields(app_focus_data[1])
     IN /\ longest_focus_period' = longest
        /\ IF current_focus_period_start # None
           THEN FocusIntervalCloses(current_focus_period_start)
           ELSE UNCHANGED closed_focus_ms
        /\ session_data' =
             <<[duration |-> session_duration,
                distraction_count |-> data.distraction_count,
                avg_distraction_time |-> data.avg_distraction_time,
                focus_percentage |->
                  FocusPercentage(data.focus_duration, session_duration),
                longest_focus_period |-> longest]>>
  /\ app_pc' = "saving"
  /\ UNCHANGED <<session_active, app_focus_data, signal_queue, buttons,
                 session_start_time, current_focus_period_start, fed,
                 pushed, seg_fed, units>>

\* Mutant: the session is marked ended whatever save_session returned.
EndSessionSave_EndsOnFailure ==
  /\ app_pc = "saving"
  /\ \E saved \in BOOLEAN :
       IF saved
       THEN /\ session_active' = FALSE
            /\ Reset
            /\ UpdateFocusDataSlot(Marshal(InitialFocusData), FALSE,
                                   current_focus_period_start,
                                   longest_focus_period)
            /\ buttons' = {"start"}
       ELSE /\ Alive
            /\ session_active' = FALSE
            /\ emitted_focus' = <<>> /\ emitted_frame' = FALSE
            /\ op' = "save_failed"
            /\ UNCHANGED <<thread_state, now, app_focus_data,
                           buttons, current_focus_period_start,
                           longest_focus_period>>
  /\ app_pc' = "idle"
  /\ closed_focus_ms' = IF session_active' THEN closed_focus_ms ELSE 0
  /\ UNCHANGED <<signal_queue, session_data, session_start_time, fed,
                 pushed, seg_fed, units>>

\* end_session() from the return of save_session: with a session id the
\* session ends and reset() runs on the UI thread, its record reaching the
\* slot at once; without one (or after an exception) nothing is reset.
EndSessionSave ==
  /\ app_pc = "saving"
  /\ \E saved \in BOOLEAN :
       IF saved
       THEN /\ session_active' = FALSE
            /\ Reset
            /\ UpdateFocusDataSlot(Marshal(InitialFocusData), FALSE,
                                   current_focus_period_start,
                                   longest_focus_period)
            /\ buttons' = {"start"}
       ELSE /\ Alive
            /\ emitted_focus' = <<>> /\ emitted_frame' = FALSE
            /\ op' = "save_failed"
            /\ UNCHANGED <<thread_state, now, session_active, app_focus_data,
                           buttons, current_focus_period_start,
                           longest_focus_period>>
  /\ app_pc' = "idle"
  /\ closed_focus_ms' = IF session_active' THEN closed_focus_ms ELSE 0
  /\ UNCHANGED <<signal_queue, session_data, session_start_time, fed,
                 pushed, seg_fed, units>>

NextApp ==
  \/ AppOpenCamera \/ AppReadFrame \/ AppProcessFace \/ AppNoFace
  \/ Deliver
  \/ StartSession \/ ResumeSession \/ PauseSession
  \/ EndSessionBegin \/ EndSessionSave
  \/ AppTick

SpecApp == Init /\ [][NextApp]_vars

\* ------------------------------------------------ one session, end to end
\* The application through a single session: the session is started, the
\* camera then delivers up to SessionFrames frames of at most one face, and
\* the session is ended.
SessionFrames == 5     \* frames read from the camera during the session
SessionFaces == 3      \* faces detected during the session

SessionStart == session_data = <<>> /\ pc = "loop" /\ StartSession

\* What update_focus_data was called with while the session was active is
\* remembered in `fed`, with the time of the call.
Fed ==
  fed' =
    IF emitted_focus' = <<>> \/ ~session_active THEN fed
    ELSE Append(fed, [looking |-> emitted_focus'[1].focused, at |-> now])

SessionReadFrame ==
  /\ session_active /\ tracking
  /\ signal_queue = <<>>
  /\ ReadFrameOf(SessionFrames, SessionFaces, 1)
  /\ Posted /\ UNCHANGED <<fed, pushed, seg_fed, units>>

SessionProcessFace ==
  ProcessFace /\ Posted /\ Fed /\ UNCHANGED <<pushed, seg_fed, units>>

SessionNoFace ==
  NoFace /\ Posted /\ Fed /\ UNCHANGED <<pushed, seg_fed, units>>

NextSession ==
  \/ AppOpenCamera \/ SessionStart \/ SessionReadFrame
  \/ SessionProcessFace \/ SessionNoFace \/ Deliver
  \/ EndSessionBegin \/ EndSessionSave
  \/ AppTick

SpecSession == Init /\ [][NextSession]_vars

\* ------------------------------------------------------- the gaze smoother
\* The capture loop on frames that hold one open-eyed face each, with reset()
\* in between; `pushed` remembers the raw gaze ratios of the faces processed
\* since the last reset().  Tracking stays off: the history is filled before
\* update_focus_data and track_gaze_changes look at the flag.
MaxPushes == 11                      \* frames the camera delivers
SmootherSamples == {100, 700}        \* raw gaze ratios 1.0 and 7.0

SmootherFaces ==
  {[blinking_ratio |-> OpenEyes, gaze_ratio |-> g] : g \in SmootherSamples}

SmootherOpenCamera == OpenCamera /\ UNCHANGED others

SmootherReadFrame ==
  /\ ReadFrameFrom(MaxPushes, {<<face>> : face \in SmootherFaces})
  /\ UNCHANGED others

SmootherFace ==
  /\ ProcessFace
  /\ pushed' = IF IsBlink(Head(faces)) THEN pushed
               ELSE Append(pushed, Head(faces).gaze_ratio)
  /\ UNCHANGED <<app, seg_fed, units>>

SmootherReset == Reset /\ pushed' = <<>> /\ UNCHANGED <<app, seg_fed, units>>

SmootherRelease == Release /\ UNCHANGED others

NextSmoother ==
  \/ SmootherOpenCamera \/ SmootherReadFrame \/ SmootherFace
  \/ SmootherReset \/ SmootherRelease

SpecSmoother == Init /\ [][NextSmoother]_vars

\* ------------------------------------------- the segmenter, fed directly
\* track_gaze_changes called with smoothed ratios of the caller's choice,
\* between start_tracking(), pause_tracking(), reset() and ticks of the
\* clock; `seg_fed` remembers the ratios the segmenter took since the last
\* reset().
MaxFeeds == 5                        \* calls of track_gaze_changes
SegmenterRatios == {100 * RatioScale, 150 * RatioScale, 300 * RatioScale}

SegmenterFeed ==
  /\ UICanCall /\ Len(seg_fed) < MaxFeeds
  /\ \E gaze_ratio \in SegmenterRatios :
       /\ TrackGazeChanges(gaze_ratio)
       /\ seg_fed' = IF tracking THEN Append(seg_fed, gaze_ratio) ELSE seg_fed
  /\ emitted_focus' = <<>> /\ emitted_frame' = FALSE
  /\ op' = "track_gaze_changes"
  /\ UNCHANGED <<flags, tracker, gaze_ratio_history, pc, cap, locals, consumed,
                 ui, stop_returned, now, app, pushed, units>>

SegmenterStartTracking == StartTracking /\ UNCHANGED others

SegmenterPauseTracking == PauseTracking /\ UNCHANGED others

SegmenterReset ==
  Reset /\ seg_fed' = <<>> /\ UNCHANGED <<app, pushed, units>>

SegmenterTick == Tick /\ UNCHANGED others

NextSegmenter ==
  \/ SegmenterFeed \/ SegmenterStartTracking \/ SegmenterPauseTracking
  \/ SegmenterReset \/ SegmenterTick

SpecSegmenter == Init /\ [][NextSegmenter]_vars

\* --------------------------------------------------------- the advice unit
\* APIThread (src/api_thread.py): the UI thread hands over payloads with
\* set_focus_data, run() polls the slot.  The payload of the k-th call of
\* set_focus_data is k; api_request holds the payloads whose request is in
\* flight, processed[p] counts the calls of generate_advice with payload p.

\* set_focus_data(focus_data), from the UI thread at any moment.
SetFocusData ==
  /\ payloads_set < MaxPayloads
  /\ payloads_set' = payloads_set + 1
  /\ api_focus_data' = payloads_set + 1
  /\ UNCHANGED <<api_pc, api_request, processed, api_running, advice_emitted>>

\* while self.running: if self.focus_data is not None:
ApiPoll ==
  /\ api_pc = "poll"
  /\ api_pc' = IF ~api_running THEN "done"
               ELSE IF api_focus_data # None THEN "call" ELSE "sleep"
  /\ UNCHANGED <<api_focus_data, api_request, processed, api_running,
                 advice_emitted, payloads_set>>

\* generate_advice(self.focus_data): the slot is read and the request sent.
ApiCall ==
  /\ api_pc = "call"
  /\ api_request' = api_request \cup {api_focus_data}
  /\ processed' = [processed EXCEPT ![api_focus_data] = @ + 1]
  /\ api_pc' = "request"
  /\ UNCHANGED <<api_focus_data, api_running, advice_emitted, payloads_set>>

\* The ways the remote call of generate_advice can go: a response, a falsy
\* response, an exception (also one raised while the prompt is built or the
\* response text is read).
RemoteOutcomes == {"response", "no_response", "exception"}

\* Mutant: generate_advice lets the exception of the remote call through.
GenerateAdvice_Propagates(outcome) ==
  [raised |-> outcome = "exception",
   text |-> IF outcome = "response" THEN "advice"
            ELSE IF outcome = "no_response" THEN "no_response" ELSE "error"]

\* generate_advice(focus_data): the whole body is inside try/except
\* Exception, and each branch returns a string.
GenerateAdvice(outcome) ==
  [raised |-> FALSE,
   text |-> IF outcome = "response" THEN "advice"
            ELSE IF outcome = "no_response" THEN "no_response" ELSE "error"]

\* The call of generate_advice ends and run() emits advice_ready once: the
\* returned string, or its own error string had the call raised.
ApiReturn ==
  /\ api_pc = "request"
  /\ \E outcome \in RemoteOutcomes, payload \in api_request :
       LET result == GenerateAdvice(outcome)
       IN /\ advice_emitted' =
               Append(advice_emitted,
                      [payload |-> payload, ok |-> outcome = "response",
                       text |-> IF result.raised THEN "error" ELSE result.text,
                       escaped |-> result.raised])
          /\ api_request' = api_request \ {payload}
  /\ api_pc' = "finally"
  /\ UNCHANGED <<api_focus_data, processed, api_running, payloads_set>>

\* Mutant: the payload is cleared only after a request that succeeded.
ApiFinally_OnlyOnSuccess ==
  /\ api_pc = "finally"
  /\ api_focus_data' =
       IF advice_emitted[Len(advice_emitted)].ok THEN None ELSE api_focus_data
  /\ api_pc' = "sleep"
  /\ UNCHANGED <<api_request, processed, api_running, advice_emitted,
                 payloads_set>>

\* finally: self.focus_data = None
ApiFinally ==
  /\ api_pc = "finally"
  /\ api_focus_data' = None
  /\ api_pc' = "sleep"
  /\ UNCHANGED <<api_request, processed, api_running, advice_emitted,
                 payloads_set>>

\* self.msleep(100)
ApiSleep ==
  /\ api_pc = "sleep"
  /\ api_pc' = "poll"
  /\ UNCHANGED <<api_focus_data, api_request, processed, api_running,
                 advice_emitted, payloads_set>>

\* stop(): self.running = False (the wait is not modelled).
ApiStop ==
  /\ api_running
  /\ api_running' = FALSE
  /\ UNCHANGED <<api_focus_data, api_pc, api_request, processed,
                 advice_emitted, payloads_set>>

NextAdvice ==
  \/ SetFocusData /\ UNCHANGED <<capture, widget, rest>>
  \/ ApiPoll /\ UNCHANGED <<capture, widget, rest>>
  \/ ApiCall /\ UNCHANGED <<capture, widget, rest>>
  \/ ApiReturn /\ UNCHANGED <<capture, widget, rest>>
  \/ ApiFinally /\ UNCHANGED <<capture, widget, rest>>
  \/ ApiSleep /\ UNCHANGED <<capture, widget, rest>>
  \/ ApiStop /\ UNCHANGED <<capture, widget, rest>>

SpecAdvice == Init /\ [][NextAdvice]_vars

\* A step of run(): the advice thread is a started QThread, which the
\* scheduler keeps running, and the remote call returns or raises.
ApiThreadStep ==
  /\ ApiPoll \/ ApiCall \/ ApiReturn \/ ApiFinally \/ ApiSleep
  /\ UNCHANGED <<capture, widget, rest>>

SpecAdviceFair == SpecAdvice /\ WF_vars(ApiThreadStep)

\* -------------------------------------------------------- the advice widget
\* AdviceWidget (src/advice_widget.py) between clicks on Generate, results
\* arriving from the advice unit, and its single-shot timers.  The widget's
\* clock counts seconds and advances in steps of WidgetTickSecs.
AdviceTimeoutSecs == 15              \* QTimer.singleShot(15000, ...)
WidgetTickSecs == 5
MaxWidgetTicks == 5                  \* the clock stops after this many steps

\* The "initialized" message that APIThread.__init__ schedules: it reaches
\* set_advice_text and update_model_status(True, "Ready").
InitMessage ==
  /\ init_message_pending
  /\ init_message_pending' = FALSE
  /\ generating_advice' = FALSE
  /\ generate_enabled' = TRUE
  /\ UNCHANGED <<requests, timers, fallbacks, widget_clock>>

\* A click on Generate with focus data at hand: the clicked signal is
\* connected to FocusTrackerApp.generate_advice twice, so
\* generate_gemini_advice runs twice and starts two timers.
GenerateClicked ==
  /\ generate_enabled /\ Len(requests) < MaxRequests
  /\ generating_advice' = TRUE
  /\ generate_enabled' = FALSE
  /\ requests' = Append(requests, [issued |-> widget_clock, answered |-> FALSE])
  /\ timers' = [timers EXCEPT ![Len(requests) + 1] = 2]
  /\ UNCHANGED <<fallbacks, widget_clock, init_message_pending>>

\* set_advice_text (with update_model_status): the result of request r
\* arrives; results arrive in the order of the requests.
AdviceArrives ==
  /\ \E r \in 1..Len(requests) :
       /\ \A q \in r..Len(requests) : ~requests[q].answered
       /\ requests' = [requests EXCEPT ![r].answered = TRUE]
  /\ generating_advice' = FALSE
  /\ generate_enabled' = TRUE
  /\ UNCHANGED <<timers, fallbacks, widget_clock, init_message_pending>>

\* check_advice_generation, run by a timer of request r once it is due.
TimerFires ==
  /\ \E r \in 1..Len(requests) :
       /\ timers[r] > 0
       /\ widget_clock >= requests[r].issued + AdviceTimeoutSecs
       /\ timers' = [timers EXCEPT ![r] = @ - 1]
       /\ IF generating_advice
          THEN /\ fallbacks' =
                    Append(fallbacks,
                           [timer_of |-> r, shown_for |-> Len(requests),
                            at |-> widget_clock])
               /\ generating_advice' = FALSE
               /\ generate_enabled' = TRUE
          ELSE UNCHANGED <<fallbacks, generating_advice, generate_enabled>>
  /\ UNCHANGED <<requests, widget_clock, init_message_pending>>

WidgetTick ==
  /\ widget_clock < MaxWidgetTicks * WidgetTickSecs
  /\ widget_clock' = widget_clock + WidgetTickSecs
  /\ UNCHANGED <<generating_advice, generate_enabled, requests, timers,
                 fallbacks, init_message_pending>>

NextWidget ==
  \/ InitMessage /\ UNCHANGED <<capture, advice, rest>>
  \/ GenerateClicked /\ UNCHANGED <<capture, advice, rest>>
  \/ AdviceArrives /\ UNCHANGED <<capture, advice, rest>>
  \/ TimerFires /\ UNCHANGED <<capture, advice, rest>>
  \/ WidgetTick /\ UNCHANGED <<capture, advice, rest>>

SpecWidget == Init /\ [][NextWidget]_vars

\* -------------------------------------------------------- the session store
\* DatabaseManager (src/database_manager.py): save_session and
\* get_session_details over one sqlite connection.  A datetime is a record
\* of whole seconds and microseconds; a number is a record of its Python
\* type and its value in hundredths.
MaxSaves == 1                        \* the saves of one run
BatchSize == 2                       \* BATCH_SIZE, scaled down from 50

PyNumber(kind, hundredths) == [kind |-> kind, h |-> hundredths]

\* int(x): truncation towards zero (the values are not negative).
PyInt(x) == PyNumber("int", (x.h \div 100) * 100)

\* float(x): the same value as a float.
PyFloat(x) == PyNumber("float", x.h)

\* Python's == on numbers compares values, not types.
PyEq(x, y) == x.h = y.h

\* datetime.isoformat(): the text has the fraction only when the
\* microseconds are not 0.  A text is the sequence of its fields.
IsoFormat_Seconds(d) == <<d.secs>>

IsoFormat(d) == IF d.micro = 0 THEN <<d.secs>> ELSE <<d.secs, d.micro>>

\* datetime.fromisoformat(text)
FromIsoFormat(text) ==
  [secs |-> text[1], micro |-> IF Len(text) = 1 THEN 0 ELSE text[2]]

\* The order of two ISO texts as sqlite compares TEXT values: character by
\* character, a proper prefix first.
TextLess(a, b) ==
  \/ a[1] < b[1]
  \/ /\ a[1] = b[1]
     /\ \/ Len(a) < Len(b)
        \/ Len(a) = 2 /\ Len(b) = 2 /\ a[2] < b[2]

\* The focus points a record may hold: collect_session_data stamps each
\* with datetime.now(), so no two of one session carry the same timestamp.
PointPool ==
  { [timestamp |-> [secs |-> 10, micro |-> 0],
     is_focused |-> TRUE, gaze_direction |-> "CENTER"],
    [timestamp |-> [secs |-> 10, micro |-> 500000],
     is_focused |-> FALSE, gaze_direction |-> "LEFT"],
    [timestamp |-> [secs |-> 15, micro |-> 0],
     is_focused |-> TRUE, gaze_direction |-> "RIGHT"] }

FocusPointLists ==
  { s \in SeqsUpTo(PointPool, Cardinality(PointPool)) :
      \A i, j \in 1..Len(s) : i # j => s[i].timestamp # s[j].timestamp }

\* The summaries end_session builds: whole seconds from secsTo, a float
\* percentage, the average as the capture thread reports it (0 or a float).
Summaries ==
  { [start_time |-> [secs |-> 0, micro |-> 250000],
     end_time |-> [secs |-> 90, micro |-> 0],
     duration |-> PyNumber("int", 9000),
     distraction_count |-> PyNumber("int", 100),
     avg_distraction_time |-> PyNumber("float", 250),
     focus_percentage |-> PyNumber("float", 3333),
     longest_focus_period |-> PyNumber("int", 6000)],
    [start_time |-> [secs |-> 100, micro |-> 0],
     end_time |-> [secs |-> 100, micro |-> 750000],
     duration |-> PyNumber("int", 0),
     distraction_count |-> PyNumber("int", 0),
     avg_distraction_time |-> PyNumber("int", 0),
     focus_percentage |-> PyNumber("float", 10000),
     longest_focus_period |-> PyNumber("int", 0)] }

SessionRecords ==
  { [summary |-> s, focus_points |-> p] : s \in Summaries,
                                          p \in FocusPointLists }

\* The row that the INSERT of save_session writes for a record.
SessionRow(id, summary) ==
  [id |-> id,
   start_time |-> IsoFormat(summary.start_time),
   end_time |-> IsoFormat(summary.end_time),
   duration |-> PyInt(summary.duration),
   distraction_count |-> PyInt(summary.distraction_count),
   avg_distraction_time |-> PyFloat(summary.avg_distraction_time),
   focus_percentage |-> PyFloat(summary.focus_percentage),
   longest_focus_period |-> PyInt(summary.longest_focus_period)]

\* The row that the INSERT of the focus-point loop writes for a point.
PointRow(id, point) ==
  [session_id |-> id,
   timestamp |-> IsoFormat(point.timestamp),
   is_focused |-> IF point.is_focused THEN 1 ELSE 0,
   gaze_direction |-> point.gaze_direction]

\* ORDER BY timestamp over rows in the order of their insertion.
RECURSIVE OrderByTimestamp(_)
OrderByTimestamp(rows) ==
  IF rows = <<>> THEN <<>>
  ELSE LET first == CHOOSE i \in 1..Len(rows) :
                      /\ \A j \in 1..Len(rows) :
                           ~TextLess(rows[j].timestamp, rows[i].timestamp)
                      /\ \A j \in 1..(i - 1) :
                           TextLess(rows[j].timestamp, rows[i].timestamp)
                            \/ TextLess(rows[i].timestamp, rows[j].timestamp)
           others_ == [k \in 1..(Len(rows) - 1) |->
                         IF k < first THEN rows[k] ELSE rows[k + 1]]
       IN <<rows[first]>> \o OrderByTimestamp(others_)

\* get_session_details(id) on a database: not found, or the summary and
\* the focus points of the session.
GetSessionDetails(db, id) ==
  LET rows == {r \in db.sessions : r.id = id}
  IN IF rows = {} THEN [found |-> FALSE]
     ELSE LET row == CHOOSE r \in rows : TRUE
              mine == SelectSeq(db.points, LAMBDA r : r.session_id = id)
              sorted == OrderByTimestamp(mine)
          IN [found |-> TRUE,
              id |-> row.id,
              start_time |-> FromIsoFormat(row.start_time),
              end_time |-> FromIsoFormat(row.end_time),
              duration |-> row.duration,
              distraction_count |-> row.distraction_count,
              avg_distraction_time |-> row.avg_distraction_time,
              focus_percentage |-> row.focus_percentage,
              longest_focus_period |-> row.longest_focus_period,
              focus_points |->
                [k \in 1..Len(sorted) |->
                   [timestamp |-> FromIsoFormat(sorted[k].timestamp),
                    is_focused |-> sorted[k].is_focused # 0,
                    gaze_direction |-> sorted[k].gaze_direction]]]

\* save_session returns: the id (None from the outer handler) is logged with
\* the record, and the locals of the call are gone.
SaveReturns(id, record, clean) ==
  /\ save_log' = Append(save_log, [id |-> id, record |-> record,
                                   clean |-> clean])
  /\ save_pc' = "idle" /\ save_record' = <<>> /\ save_id' = None
  /\ save_i' = 0 /\ save_clean' = TRUE

\* save_session up to the session id: the summary row is inserted in the
\* transaction that the INSERT opens; a failure of the statement reaches the
\* outer handler, which rolls back and returns None.
SaveBegin ==
  /\ save_pc = "idle" /\ Len(save_log) < MaxSaves
  /\ \E record \in SessionRecords, executed \in BOOLEAN :
       IF executed
       THEN /\ save_record' = record
            /\ save_i' = 1
            /\ save_id' = db_conn.seq + 1
            /\ db_conn' =
                 [db_conn EXCEPT
                    !.sessions = @ \cup {SessionRow(db_conn.seq + 1,
                                                    record.summary)},
                    !.seq = @ + 1]
            /\ save_clean' = TRUE
            /\ save_pc' = IF record.focus_points = <<>> THEN "eye"
                          ELSE "points"
            /\ UNCHANGED save_log
       ELSE /\ db_conn' = db_disk
            /\ SaveReturns(None, record, FALSE)
  /\ UNCHANGED <<db_disk, retrieved>>

\* One focus point of the loop, with the commit that ends its batch.  The
\* INSERT may fail (caught, the point is skipped); the conversion of the
\* point or the commit may raise, which reaches the inner handler: it rolls
\* back and returns the session id.
SavePoint ==
  /\ save_pc = "points"
  /\ \E outcome \in {"inserted", "insert_error", "raised"},
        committed \in BOOLEAN :
       LET point == save_record.focus_points[save_i]
           last == save_i = Len(save_record.focus_points)
           batch_ends == last \/ save_i % BatchSize = 0
           view == IF outcome = "inserted"
                   THEN [db_conn EXCEPT
                           !.points = Append(@, PointRow(save_id, point))]
                   ELSE db_conn
       IN /\ (committed = FALSE) => batch_ends /\ outcome # "raised"
          /\ IF outcome = "raised" \/ ~committed
             THEN /\ db_conn' = db_disk
                  /\ SaveReturns(save_id, save_record, FALSE)
                  /\ UNCHANGED db_disk
             ELSE /\ db_conn' = view
                  /\ db_disk' = IF batch_ends THEN view ELSE db_disk
                  /\ save_clean' = (save_clean /\ outcome = "inserted")
                  /\ save_i' = save_i + 1
                  /\ save_pc' = IF last THEN "eye" ELSE "points"
                  /\ UNCHANGED <<save_log, save_record, save_id>>
  /\ UNCHANGED retrieved

\* The eye-movement data: absent, saved and committed by
\* _save_eye_movement_data, or failed inside it (caught there).
SaveEyeMovementData ==
  /\ save_pc = "eye"
  /\ \E outcome \in {"absent", "saved", "failed"} :
       IF outcome = "saved"
       THEN /\ db_conn' = [db_conn EXCEPT !.eye = @ \cup {save_id}]
            /\ db_disk' = db_conn'
       ELSE UNCHANGED <<db_conn, db_disk>>
  /\ save_pc' = "final"
  /\ UNCHANGED <<save_record, save_id, save_i, save_clean, save_log,
                 retrieved>>

\* The final commit and the return of the id; a failing commit reaches the
\* inner handler.
SaveFinalCommit ==
  /\ save_pc = "final"
  /\ \E committed \in BOOLEAN :
       IF committed
       THEN /\ db_disk' = db_conn
            /\ SaveReturns(save_id, save_record, save_clean)
            /\ UNCHANGED db_conn
       ELSE /\ db_conn' = db_disk
            /\ SaveReturns(save_id, save_record, FALSE)
            /\ UNCHANGED db_disk
  /\ UNCHANGED retrieved

\* get_session_details with an id that save_session returned.
Retrieve ==
  /\ save_pc = "idle"
  /\ \E k \in 1..Len(save_log) :
       /\ save_log[k].id # None
       /\ retrieved' = [id |-> save_log[k].id,
                        details |-> GetSessionDetails(db_conn, save_log[k].id)]
  /\ UNCHANGED <<db_disk, db_conn, save_pc, save_record, save_id, save_i,
                 save_clean, save_log>>

NextStore ==
  \/ SaveBegin /\ UNCHANGED <<capture, advice, widget, buffers, eye>>
  \/ SavePoint /\ UNCHANGED <<capture, advice, widget, buffers, eye>>
  \/ SaveEyeMovementData /\ UNCHANGED <<capture, advice, widget, buffers, eye>>
  \/ SaveFinalCommit /\ UNCHANGED <<capture, advice, widget, buffers, eye>>
  \/ Retrieve /\ UNCHANGED <<capture, advice, widget, buffers, eye>>

SpecStore == Init /\ [][NextStore]_vars

\* ------------------------------------------------------ the session buffers
\* collect_session_data and the capping of end_session
\* (src/focus_tracker_app.py).
MaxBuffer == 520                     \* the samples of one session
MAX_FOCUS_POINTS == 500
MAX_SNAPSHOTS == 100

\* Python's // on integers rounds towards minus infinity, as \div does.
PyFloorDiv(a, b) == a \div b

\* A slice bound of Python: a negative bound counts from the end, and every
\* bound is clipped to the list.
SliceBound_NoWrap(i, n) == Max(0, Min(i, n))

SliceBound(i, n) == IF i < 0 THEN Max(n + i, 0) ELSE Min(i, n)

\* list[i:j]
PySlice(list, i, j) ==
  SubSeq(list, SliceBound(i, Len(list)) + 1, SliceBound(j, Len(list)))

\* The capping of a buffer to max items: the first third, a third around
\* the middle and the last third; a buffer of at most max items is kept.
CapBuffer(buffer, max) ==
  IF Len(buffer) > max
  THEN LET first_third == PySlice(buffer, 0, PyFloorDiv(max, 3))
           middle_third ==
             PySlice(buffer,
                     PyFloorDiv(Len(buffer), 2) - PyFloorDiv(max, 6),
                     PyFloorDiv(Len(buffer), 2) + PyFloorDiv(max, 6))
           last_third ==
             PySlice(buffer, PyFloorDiv(-max, 3), Len(buffer))
       IN first_third \o middle_third \o last_third
  ELSE buffer

\* collect_session_data, run by the data collection timer: one focus point
\* and one snapshot are appended.
CollectSessionData ==
  /\ ~buffers_capped /\ samples_collected < MaxBuffer
  /\ samples_collected' = samples_collected + 1
  /\ session_focus_points' =
       Append(session_focus_points, samples_collected + 1)
  /\ focus_data_snapshots' =
       Append(focus_data_snapshots, samples_collected + 1)
  /\ UNCHANGED buffers_capped

\* end_session up to the record handed to save_session: both buffers are
\* capped in place.
CapBuffers ==
  /\ ~buffers_capped
  /\ buffers_capped' = TRUE
  /\ session_focus_points' = CapBuffer(session_focus_points, MAX_FOCUS_POINTS)
  /\ focus_data_snapshots' = CapBuffer(focus_data_snapshots, MAX_SNAPSHOTS)
  /\ UNCHANGED samples_collected

NextBuffers ==
  \/ CollectSessionData /\ UNCHANGED <<capture, advice, widget, store, eye>>
  \/ CapBuffers /\ UNCHANGED <<capture, advice, widget, store, eye>>

SpecBuffers == Init /\ [][NextBuffers]_vars

\* ------------------------------------------------------------ the blink ratio
\* VideoThread.get_blinking_ratio (src/video_thread.py) on the six landmarks
\* of one eye, in pixel coordinates.  The landmarks are chosen so that every
\* distance is a whole number of pixels.
Point(x, y) == [x |-> x, y |-> y]

\* The eyes the predictor may report: the left corner, the two landmarks of
\* the upper lid, the right corner, the two landmarks of the lower lid.
EyeLandmarks ==
  { <<Point(0, 10), Point(10, t1), Point(20, t2), corner,
      Point(20, b2), Point(10, b1)>> :
      t1 \in {8, 9, 10}, t2 \in {8, 9, 10},
      corner \in {Point(30, 10), Point(40, 40), Point(0, 10)},
      b1 \in {10, 11, 14}, b2 \in {10, 11, 14} }

\* midpoint(p1, p2): int() truncates the halves (the coordinates are not
\* negative).
Midpoint(p1, p2) == Point((p1.x + p2.x) \div 2, (p1.y + p2.y) \div 2)

\* hypot(dx, dy) where it is a whole number.
Hypot(dx, dy) == CHOOSE r \in 0..(Abs(dx) + Abs(dy)) : r * r = dx * dx + dy * dy

VerLineLength(points) ==
  LET center_top == Midpoint(points[2], points[3])
      center_bottom == Midpoint(points[6], points[5])
  IN Hypot(center_top.x - center_bottom.x, center_top.y - center_bottom.y)

HorLineLength(points) ==
  Hypot(points[1].x - points[4].x, points[1].y - points[4].y)

\* hor_line_length / ver_line_length if ver_line_length > 0 else 1
GetBlinkingRatio(points) ==
  IF VerLineLength(points) > 0
  THEN Frac(HorLineLength(points), VerLineLength(points))
  ELSE Frac(1, 1)

\* The predictor reports the landmarks of an eye.
DetectEye ==
  /\ eye_pc \in {"idle", "measured"}
  /\ eye_landmarks' \in EyeLandmarks
  /\ eye_pc' = "detected"
  /\ UNCHANGED blinking_ratio

\* get_blinking_ratio on the reported eye.
MeasureBlink ==
  /\ eye_pc = "detected"
  /\ blinking_ratio' = GetBlinkingRatio(eye_landmarks)
  /\ eye_pc' = "measured"
  /\ UNCHANGED eye_landmarks

NextEye ==
  \/ DetectEye /\ UNCHANGED <<capture, advice, widget, store, buffers>>
  \/ MeasureBlink /\ UNCHANGED <<capture, advice, widget, store, buffers>>

SpecEye == Init /\ [][NextEye]_vars

\* ------------------------------------------- the smoother, step by step
\* Lines 215-219 of run() one statement at a time on frames of one open-eyed
\* face, with reset() on the UI thread between any two of them: the append,
\* the test of the length, the pop and the mean each read
\* self.gaze_ratio_history anew, and reset() binds it to a new empty list.
\* An exception that escapes run() ends the process.

\* self.gaze_ratio_history.append(gaze_ratio)
SmootherAppend ==
  /\ pc = "faces" /\ faces # <<>>
  /\ gaze_ratio_history' = Append(gaze_ratio_history, Head(faces).gaze_ratio)
  /\ pc' = "evict" /\ op' = "append"
  /\ emitted_focus' = <<>> /\ emitted_frame' = FALSE
  /\ UNCHANGED <<flags, segmenter, tracker, cap, locals, consumed, ui,
                 stop_returned, now>>

\* if len(self.gaze_ratio_history) > 10:
SmootherEvictTest ==
  /\ pc = "evict"
  /\ pc' = IF Len(gaze_ratio_history) > HistoryLen THEN "pop" ELSE "mean"
  /\ op' = "evict_test"
  /\ emitted_focus' = <<>> /\ emitted_frame' = FALSE
  /\ UNCHANGED <<flags, segmenter, tracker, gaze_ratio_history, cap, locals,
                 consumed, ui, stop_returned, now>>

\* self.gaze_ratio_history.pop(0): IndexError on an empty list.
SmootherPop ==
  /\ pc = "pop"
  /\ IF gaze_ratio_history = <<>>
     THEN pc' = "aborted" /\ UNCHANGED gaze_ratio_history
     ELSE pc' = "mean" /\ gaze_ratio_history' = Tail(gaze_ratio_history)
  /\ op' = "pop"
  /\ emitted_focus' = <<>> /\ emitted_frame' = FALSE
  /\ UNCHANGED <<flags, segmenter, tracker, cap, locals, consumed, ui,
                 stop_returned, now>>

\* avg_gaze_ratio = sum(history)/len(history), ZeroDivisionError on an empty
\* list, and the rest of the face: the direction, track_gaze_changes and
\* update_focus_data.
SmootherMean ==
  /\ pc = "mean"
  /\ IF gaze_ratio_history = <<>>
     THEN /\ pc' = "aborted"
          /\ emitted_focus' = <<>> /\ emitted_frame' = FALSE
          /\ UNCHANGED <<segmenter, tracker, locals>>
     ELSE LET avg == SmoothedRatio(gaze_ratio_history)
              direction == GazeDirection(avg)
              looking == IF direction = "CENTER" THEN is_looking_at_screen
                         ELSE FALSE
          IN /\ avg_gaze_ratio' = avg
             /\ gaze_direction' = direction
             /\ is_looking_at_screen' = looking
             /\ TrackGazeChanges(avg)
             /\ UpdateFocusData(looking, is_blinking, direction)
             /\ faces' = Tail(faces)
             /\ emitted_frame' = (Tail(faces) = <<>>)
             /\ pc' = IF Tail(faces) = <<>> THEN "loop" ELSE "faces"
             /\ UNCHANGED is_blinking
  /\ op' = "mean"
  /\ UNCHANGED <<flags, gaze_ratio_history, cap, consumed, ui, stop_returned,
                 now>>

NextSteps ==
  \/ OpenCamera /\ UNCHANGED others
  \/ SmootherReadFrame
  \/ SmootherAppend /\ UNCHANGED others
  \/ SmootherEvictTest /\ UNCHANGED others
  \/ SmootherPop /\ UNCHANGED others
  \/ SmootherMean /\ UNCHANGED others
  \/ Reset /\ UNCHANGED others

SpecSteps == Init /\ [][NextSteps]_vars

\* ------------------------------------------ the application, clock in seconds
\* The application with a clock that advances by whole seconds, so that the
\* time between the construction of the capture thread and Start Session,
\* and the length of a session, are seconds apart.
MaxSeconds == 2        \* the coarse clock stops after this many seconds

SecondTick ==
  /\ Alive /\ ~MidFrame
  /\ now < MaxSeconds * MsPerSec
  /\ now' = now + MsPerSec
  /\ emitted_focus' = <<>> /\ emitted_frame' = FALSE /\ op' = "tick"
  /\ UNCHANGED <<flags, segmenter, tracker, gaze_ratio_history, pc, cap,
                 locals, consumed, ui, stop_returned>>

AppSecondTick == SecondTick /\ UNCHANGED others

NextAppSeconds ==
  \/ AppOpenCamera \/ AppReadFrame \/ AppProcessFace \/ AppNoFace
  \/ Deliver
  \/ StartSession \/ ResumeSession \/ PauseSession
  \/ EndSessionBegin \/ EndSessionSave
  \/ AppSecondTick

SpecAppSeconds == Init /\ [][NextAppSeconds]_vars

\* ----------------------------------- the tracker calls, test and body apart
\* track_gaze_changes and update_focus_data each test self.tracking first
\* and then work on the shared state; start_tracking() and reset() run on
\* the UI thread and can fall between the test and the body of either call.

\* Lines 198-232 for the next face: the blink test, the smoother and the
\* direction; the misplaced line 234 reads avg_gaze_ratio.
GazeStep ==
  /\ pc = "faces" /\ faces # <<>>
  /\ LET face == Head(faces)
         blink == IsBlink(face)
         history == IF blink THEN gaze_ratio_history
                    ELSE PushSample(gaze_ratio_history, face.gaze_ratio)
         avg == IF blink THEN avg_gaze_ratio ELSE SmoothedRatio(history)
         direction == IF blink THEN gaze_direction ELSE GazeDirection(avg)
         looking == IF blink \/ direction = "CENTER" THEN is_looking_at_screen
                    ELSE FALSE
     IN /\ is_blinking' = (is_blinking \/ blink)
        /\ IF avg = None
           THEN /\ pc' = "aborted"
                /\ UNCHANGED <<gaze_ratio_history, gaze_direction,
                               is_looking_at_screen, avg_gaze_ratio>>
           ELSE /\ gaze_ratio_history' = history
                /\ avg_gaze_ratio' = avg
                /\ gaze_direction' = direction
                /\ is_looking_at_screen' = looking
                /\ pc' = "track_test"
  /\ emitted_focus' = <<>> /\ emitted_frame' = FALSE /\ op' = "gaze"
  /\ UNCHANGED <<flags, segmenter, tracker, faces, cap, consumed, ui,
                 stop_returned, now>>

\* track_gaze_changes: if not self.tracking: return
TrackTest ==
  /\ pc = "track_test"
  /\ pc' = IF tracking THEN "track_body" ELSE "focus_test"
  /\ emitted_focus' = <<>> /\ emitted_frame' = FALSE /\ op' = "track_test"
  /\ UNCHANGED <<flags, segmenter, tracker, gaze_ratio_history, cap, locals,
                 consumed, ui, stop_returned, now>>

\* track_gaze_changes past the test.
TrackBody ==
  /\ pc = "track_body"
  /\ Segment(avg_gaze_ratio)
  /\ pc' = "focus_test"
  /\ emitted_focus' = <<>> /\ emitted_frame' = FALSE /\ op' = "track_body"
  /\ UNCHANGED <<flags, tracker, gaze_ratio_history, cap, locals, consumed,
                 ui, stop_returned, now>>

\* The end of the body of "for face in faces", or of the "if not faces"
\* branch: the frame is emitted after its last face.
FaceDone ==
  /\ faces' = IF faces = <<>> THEN <<>> ELSE Tail(faces)
  /\ emitted_frame' = (faces' = <<>>)
  /\ pc' = IF faces' = <<>> THEN "loop" ELSE "faces"
  /\ UNCHANGED <<is_blinking, gaze_direction, is_looking_at_screen,
                 avg_gaze_ratio>>

\* update_focus_data: if not self.tracking or self.paused: return
FocusTest ==
  /\ pc \in {"focus_test", "noface"}
  /\ IF ~tracking \/ paused
     THEN FaceDone
     ELSE pc' = "focus_body" /\ emitted_frame' = FALSE /\ UNCHANGED locals
  /\ emitted_focus' = <<>> /\ op' = "focus_test"
  /\ UNCHANGED <<flags, segmenter, tracker, gaze_ratio_history, cap, consumed,
                 ui, stop_returned, now>>

\* update_focus_data past the test, with the arguments of the call: those
\* of the face, or (False, False, "UNKNOWN") for a frame without a face.
FocusBody ==
  /\ pc = "focus_body"
  /\ IF faces = <<>> THEN TrackerUpdate(FALSE, FALSE, "UNKNOWN")
     ELSE TrackerUpdate(is_looking_at_screen, is_blinking, gaze_direction)
  /\ FaceDone
  /\ op' = "focus_body"
  /\ UNCHANGED <<flags, segmenter, gaze_ratio_history, cap, consumed, ui,
                 stop_returned, now>>

NextRace ==
  \/ OpenCamera /\ UNCHANGED others
  \/ ReadFrame /\ UNCHANGED others
  \/ GazeStep /\ UNCHANGED others
  \/ TrackTest /\ UNCHANGED others
  \/ TrackBody /\ UNCHANGED others
  \/ FocusTest /\ UNCHANGED others
  \/ FocusBody /\ UNCHANGED others
  \/ StartTracking /\ UNCHANGED others
  \/ Reset /\ UNCHANGED others
  \/ Tick /\ UNCHANGED others

SpecRace == Init /\ [][NextRace]_vars

\* ================================================================ claims
\* Step predicates used by the action properties below.
\* A step in which update_focus_data ran to its end (tracking, not paused).
FeedStep ==
  /\ op' \in {"face", "no_face"} /\ pc' # "aborted"
  /\ tracking /\ ~paused

\* The is_looking_at_screen argument of that call.
LookingFed == IF op' = "no_face" THEN FALSE ELSE is_looking_at_screen'

\* A step that processed a blinking face.
BlinkStep == op' = "face" /\ pc' # "aborted" /\ IsBlink(Head(faces))

\* C1: when looking_at_screen is true and the tracker was not focused, the
\* length of the distraction interval that ends (now - distraction_start,
\* in seconds) is appended to the durations, distraction_start is cleared,
\* is_focused becomes true and focus_start becomes now.  The appended
\* duration is exactly the interval's length.  (Stated for the faces that
\* do not blink: what a blink feeds is the subject of C8.)
C1_ClosesInterval ==
  [][(FeedStep /\ ~BlinkStep /\ LookingFed /\ ~is_focused) =>
       /\ is_focused' /\ focus_start_time' = now
       /\ distraction_start_time' = None
       /\ distraction_start_time # None =>
            /\ Len(distraction_periods') = Len(distraction_periods) + 1
            /\ SubSeq(distraction_periods', 1, Len(distraction_periods))
                 = distraction_periods
            /\ distraction_periods'[Len(distraction_periods')] * MsPerSec
                 = now - distraction_start_time]_vars

\* C2: distraction_count grows by exactly 1 on a focused -> distracted
\* transition (a frame fed with looking_at_screen false while is_focused),
\* which also clears is_focused and sets distraction_start to now; no other
\* step changes it, except reset, which sets it to 0.
C2_CountsTransitions ==
  [][LET opening == FeedStep /\ ~LookingFed /\ is_focused
     IN /\ opening =>
             /\ focus_data'.distraction_count = focus_data.distraction_count + 1
             /\ ~is_focused' /\ distraction_start_time' = now
        /\ ~opening =>
             \/ focus_data'.distraction_count = focus_data.distraction_count
             \/ op' = "reset" /\ focus_data'.distraction_count = 0]_vars

C2_Witness == op = "no_face" /\ focus_data.distraction_count = 2

\* C3: a record produced by update_focus_data has focus_duration = the
\* whole seconds from focus_start to now when the tracker is focused and 0
\* when it is distracted, and avg_distraction_time = the mean of the
\* recorded durations, 0 when there is none.
C3_DerivedOutputs ==
  (op \in {"face", "no_face"} /\ emitted_focus # <<>>) =>
    LET d == emitted_focus[1]
        avg == d.avg_distraction_time
    IN /\ is_focused => d.focus_duration * MsPerSec <= now - focus_start_time
                       /\ now - focus_start_time < (d.focus_duration + 1) * MsPerSec
       /\ ~is_focused => d.focus_duration = 0
       /\ distraction_periods = <<>> => avg.num = 0
       /\ distraction_periods # <<>> =>
            avg.num * Len(distraction_periods) = Sum(distraction_periods) * avg.den

\* The record of the frame that ends a distraction of a whole second.
C3_Witness ==
  /\ op = "face" /\ emitted_focus # <<>>
  /\ is_focused /\ distraction_periods # <<>>
  /\ emitted_focus[1].avg_distraction_time.num > 0

\* C4: after reset() every counter, history and segmenter/tracker field has
\* its initial value and the record reset published is the initial record.
C4_ResetClears ==
  op = "reset" =>
    /\ focus_data = InitialFocusData
    /\ emitted_focus = <<InitialFocusData>>
    /\ distraction_periods = <<>> /\ gaze_ratio_history = <<>>
    /\ last_gaze_ratio = None /\ fixation_start_time = None
    /\ ~in_fixation /\ saccade_confirmation_count = 0
    /\ gaze_ratio_changes = <<>> /\ fixation_durations = <<>>
    /\ is_focused /\ distraction_start_time = None
    /\ focus_start_time = now /\ ~tracking

\* reset() ran after every frame had been read and a face processed.
C4_Witness ==
  op = "reset" /\ frames_read = MaxFrames /\ avg_gaze_ratio # None /\ now > 0

\* C5: stop() returns only after the capture loop has exited and released
\* the camera if it had opened it; a stop() after one that returned leaves
\* every field, the loop and the camera as they are.
C5_StopJoins ==
  /\ [](stop_returned => pc = "done" /\ cap # "open")
  /\ [][(stop_returned /\ op' \in {"stop", "stop_return"}) =>
         UNCHANGED <<flags, segmenter, tracker, gaze_ratio_history, pc, cap,
                     locals, consumed>>]_vars

\* A stop() has returned with the camera released, the loop being paused
\* with pause(), and stop() is called again.
C5_Witness ==
  /\ op = "stop" /\ stop_returned /\ paused /\ cap = "released"

\* C6: start_tracking() sets tracking; if the tracker was not focused it
\* becomes focused, focus_start becomes now and distraction_start is
\* cleared; if it was focused, focus_start, the durations and
\* distraction_count are unchanged.
C6_StartTracking ==
  [][op' = "start_tracking" =>
       /\ tracking'
       /\ ~is_focused =>
            is_focused' /\ focus_start_time' = now
            /\ distraction_start_time' = None
       /\ is_focused =>
            /\ UNCHANGED <<is_focused, focus_start_time, distraction_periods>>
            /\ focus_data'.distraction_count = focus_data.distraction_count]_vars

\* start_tracking() ran while the last record was a distracted one.
C6_Witness ==
  /\ op = "start_tracking" /\ ~focus_data.focused
  /\ focus_start_time = now /\ now > 0 /\ distraction_start_time = None

\* C7: pause_tracking() changes only the tracking flag, and a frame
\* processed while tracking is off leaves the tracker state, the FocusData
\* record, the segmenter state and both event sequences unchanged.
C7_PauseKeepsState ==
  [][/\ op' = "pause_tracking" =>
          UNCHANGED <<running, paused, segmenter, tracker, gaze_ratio_history>>
     /\ (op' \in {"face", "no_face"} /\ ~tracking) =>
          UNCHANGED <<segmenter, tracker>>]_vars

\* A face was processed with tracking off and accumulated state retained.
C7_Witness ==
  /\ op = "face" /\ ~tracking /\ gaze_ratio_history # <<>>
  /\ focus_data.distraction_count > 0 /\ last_gaze_ratio # None

\* C8: on a blinking face the focused and direction values fed to the
\* tracker and published are those of the previous record, so a blink
\* causes no focused/distracted transition.
C8_BlinkFreezes ==
  [][BlinkStep =>
       /\ is_focused' = is_focused
       /\ emitted_focus' # <<>> =>
            /\ emitted_focus'[1].focused = focus_data.focused
            /\ emitted_focus'[1].direction = focus_data.direction]_vars

\* C9: on a blinking face no sample is pushed to the smoother and the
\* segmenter state and both event sequences are unchanged.
C9_BlinkSkipsSegmenter ==
  [][BlinkStep => UNCHANGED <<gaze_ratio_history, segmenter>>]_vars

\* C10: on a frame with no face the tracker is fed looking_at_screen false
\* with direction UNKNOWN, and the smoother history, the segmenter state
\* and the event sequences are unchanged.
C10_NoFaceFeedsTracker ==
  [][op' = "no_face" =>
       /\ UNCHANGED <<gaze_ratio_history, segmenter>>
       /\ (tracking /\ ~paused) =>
            /\ ~is_focused'
            /\ emitted_focus' = <<focus_data'>>
            /\ ~focus_data'.focused /\ focus_data'.direction = "UNKNOWN"
            /\ ~focus_data'.blinking]_vars

\* A no-face frame was fed to the tracker after faces had been segmented.
C10_Witness ==
  /\ op = "no_face" /\ focus_data.direction = "UNKNOWN" /\ ~is_focused
  /\ gaze_ratio_history # <<>> /\ last_gaze_ratio # None

\* C11: after processing a frame (tracking on, the loop not paused) the
\* capture loop publishes both the frame image and the current FocusData
\* record, whether the frame held no face, one face or several: the step
\* that ends the frame emits the image and the record.
C11_PublishesBoth ==
  [][(op' \in {"face", "no_face"} /\ pc' # "faces" /\ tracking /\ ~paused) =>
       emitted_frame' /\ emitted_focus' = <<focus_data'>>]_vars

\* The content of the record the UI stored last, and of the records waiting
\* for the slot.
StoredFocusData ==
  IF app_focus_data = <<>> THEN <<>> ELSE <<Fields(app_focus_data[1])>>

QueuedFocusData == [i \in 1..Len(signal_queue) |-> Fields(signal_queue[i])]

C13_CaptureLoopOnlyWriter ==
  [][op' \in {"start_tracking", "pause_tracking", "resume", "reset",
              "save_failed"} =>
       UNCHANGED <<segmenter, tracker, gaze_ratio_history>>]_vars

\* The capture loop has been left (run() is at cap.release() or has returned).
LoopLeft == pc \in {"release", "done"}

\* C14: when the camera cannot be opened run() returns with no frame read and
\* nothing published; when one cap.read() fails the loop is left at once (no
\* further read), the camera is released, and from then on the capture thread
\* reads no frame and publishes neither an image nor a FocusData record (a
\* record can then only come from start_tracking() or reset()).
C14_CameraFailures ==
  [][/\ (op' = "open_camera" /\ cap' # "open") =>
          /\ pc' = "done" /\ frames_read' = 0
          /\ emitted_focus' = <<>> /\ ~emitted_frame'
     /\ (op' = "read_frame" /\ ~MidFrame') =>
          /\ pc' = "release"
          /\ emitted_focus' = <<>> /\ ~emitted_frame'
     /\ (pc = "release" /\ pc' # "release") =>
          pc' = "done" /\ cap' = "released"
     /\ LoopLeft =>
          /\ LoopLeft'
          /\ frames_read' = frames_read
          /\ ~emitted_frame'
          /\ emitted_focus' # <<>> => op' \in {"start_tracking", "reset"}]_vars

\* The second read failed while the thread was asked to keep running; the
\* camera has been released.
C14_Witness ==
  pc = "done" /\ running /\ cap = "released" /\ frames_read = 2 /\ op = "release"

\* C16: reset() is idempotent: a reset() that directly follows a reset()
\* changes nothing, neither the flags, the segmenter and tracker fields, the
\* gaze history and FocusData, nor the record it publishes.
C16_ResetIdempotent ==
  [][(op = "reset" /\ op' = "reset") =>
       UNCHANGED <<thread_state, emitted_focus, emitted_frame>>]_vars

\* reset() has run on a thread that had processed two faces and a second
\* reset() can follow.
C16_Witness ==
  op = "reset" /\ UICanCall /\ faces_seen = 2 /\ frames_read = 2

\* C17: each open-eyed face is classified by its smoothed gaze ratio r alone:
\* RIGHT and off screen iff r < 0.45, CENTER and on screen iff
\* 0.45 <= r <= 5.5, LEFT and off screen iff r > 5.5.
C17_Classification ==
  [][(op' = "face" /\ pc' # "aborted" /\ ~IsBlink(Head(faces))) =>
       /\ (gaze_direction' = "RIGHT") = (avg_gaze_ratio' < RightThreshold)
       /\ (gaze_direction' = "CENTER") =
            (RightThreshold <= avg_gaze_ratio' /\ avg_gaze_ratio' <= LeftThreshold)
       /\ (gaze_direction' = "LEFT") = (avg_gaze_ratio' > LeftThreshold)
       /\ is_looking_at_screen' = (gaze_direction' = "CENTER")]_vars

\* The most recent min(k, 10) of the k samples pushed since the last reset().
LastPushed ==
  LET k == Len(pushed)
  IN SubSeq(pushed, k - Min(k, HistoryLen) + 1, k)

\* C18: after k open-eyed faces since the last reset() the gaze history holds
\* exactly the most recent min(k, 10) raw samples in arrival order (never more
\* than 10), and the smoothed value computed for a face is their arithmetic
\* mean.
C18_SmootherWindow ==
  /\ Len(gaze_ratio_history) = Min(Len(pushed), HistoryLen)
  /\ gaze_ratio_history = LastPushed
  /\ (op = "face" /\ pc # "aborted") =>
       avg_gaze_ratio * Len(LastPushed) = Sum(LastPushed) * RatioScale

\* Eleven samples of 1.0 have been pushed: the mean over the last ten is 1.0.
C18_Witness ==
  /\ op = "face"
  /\ pushed = [i \in 1..(HistoryLen + 1) |-> 100]
  /\ Len(gaze_ratio_history) = HistoryLen
  /\ avg_gaze_ratio = 100 * RatioScale

\* C19: while every ratio the segmenter has taken since the last reset() is
\* the same value, no saccade and no fixation has been recorded and the
\* confirmation count is 0.
C19_IdenticalRatios ==
  (\A i \in 1..Len(seg_fed) : seg_fed[i] = seg_fed[1]) =>
     /\ gaze_ratio_changes = <<>>
     /\ fixation_durations = <<>>
     /\ saccade_confirmation_count = 0

\* The same ratio has been fed three times or more, with time passing.
C19_Witness ==
  /\ op = "track_gaze_changes" /\ tracking
  /\ Len(seg_fed) >= 3
  /\ \A i \in 1..Len(seg_fed) : seg_fed[i] = seg_fed[1]
  /\ last_gaze_ratio = seg_fed[1]
  /\ fixation_start_time # None /\ now > fixation_start_time

\* C20: when the advice unit has finished processing a payload, after a
\* request that succeeded or one that failed, the payload slot is empty; no
\* payload handed over by a set_focus_data call is passed to generate_advice
\* more than once, and at most one request is in flight.
C20_ProcessedOnce ==
  [][/\ (api_pc = "finally" /\ api_pc' # "finally") => api_focus_data' = None
     /\ \A p \in Payloads : processed'[p] <= 1
     /\ Cardinality(api_request') <= 1]_vars

\* A request has failed, its payload has been cleared, and the next payload
\* has been taken up.
C20_Witness ==
  /\ advice_emitted # <<>> /\ ~advice_emitted[1].ok
  /\ processed[advice_emitted[1].payload] = 1
  /\ api_pc = "request" /\ api_request # {}
  /\ advice_emitted[1].payload \notin api_request

\* The tracker was fed exactly three frames without a look at the screen and
\* then two with one, and time passed between the first and the fourth.
ThreeAwayTwoBack ==
  /\ Len(fed) = 5
  /\ \A i \in 1..3 : ~fed[i].looking
  /\ \A i \in 4..5 : fed[i].looking
  /\ fed[4].at > fed[1].at

\* C15: a session that is started, fed three not-looking frames and then two
\* looking frames, and ended once the UI has received the last record, leaves
\* a session record with distraction_count 1 and a positive
\* avg_distraction_time.
C15_EndToEnd ==
  [][(app_pc' = "saving" /\ app_pc = "idle" /\ signal_queue = <<>>
      /\ ThreeAwayTwoBack) =>
       /\ session_data'[1].distraction_count = 1
       /\ session_data'[1].avg_distraction_time.num > 0]_vars

\* C21: every call of generate_advice that has ended produced exactly one
\* advice_ready string, the formatted advice after a response and an error
\* text otherwise; no exception came out of generate_advice; and after the
\* emission the loop clears the payload, sleeps and polls again (it ends only
\* when stop() has cleared `running`).
C21_OneEmissionPerPayload ==
  [][/\ Len(advice_emitted') + Cardinality(api_request') = Sum(processed')
     /\ \A i \in 1..Len(advice_emitted') :
          LET e == advice_emitted'[i]
          IN /\ ~e.escaped
             /\ e.ok => e.text = "advice"
             /\ ~e.ok => e.text \in {"error", "no_response"}
     /\ (api_pc = "request" /\ api_pc' # "request") =>
          Len(advice_emitted') = Len(advice_emitted) + 1 /\ api_pc' = "finally"
     /\ (api_pc = "finally" /\ api_pc' # "finally") => api_pc' = "sleep"
     /\ (api_pc = "sleep" /\ api_pc' # "sleep") => api_pc' = "poll"
     /\ api_pc' = "done" => ~api_running']_vars

\* A request has failed with an exception, a later one has succeeded, and
\* the unit is polling again.
C21_Witness ==
  /\ api_pc = "poll" /\ api_running
  /\ Len(advice_emitted) = 2
  /\ advice_emitted[1].text = "error" /\ advice_emitted[2].text = "advice"

\* C22: the canned fallback is shown for a request (the one being generated
\* when it is shown) only when 15 s have passed since that request was
\* issued; a timer left over from an earlier request does not show it
\* sooner.
C22_FallbackAfterTimeout ==
  \A i \in 1..Len(fallbacks) :
    fallbacks[i].at - requests[fallbacks[i].shown_for].issued >= AdviceTimeoutSecs

\* ---------------------------------------------------------------- C23
\* C23: whenever save_session has returned a session id, whether or not an
\* insertion of a focus point or of the eye-movement data failed, the summary
\* row of that id is stored: get_session_details(id) finds the session and
\* returns the summary fields of the record that was saved.
SameSummary(summary, details) ==
  /\ details.start_time = summary.start_time
  /\ details.end_time = summary.end_time
  /\ PyEq(details.duration, summary.duration)
  /\ PyEq(details.distraction_count, summary.distraction_count)
  /\ PyEq(details.avg_distraction_time, summary.avg_distraction_time)
  /\ PyEq(details.focus_percentage, summary.focus_percentage)
  /\ PyEq(details.longest_focus_period, summary.longest_focus_period)

C23_SummaryDurable ==
  save_pc = "idle" =>
    \A k \in 1..Len(save_log) :
      save_log[k].id # None =>
        LET details == GetSessionDetails(db_conn, save_log[k].id)
        IN /\ details.found
           /\ SameSummary(save_log[k].record.summary, details)

\* ---------------------------------------------------------------- C24
\* The focus points of a record are a time series when their timestamps
\* increase from each point to the next.
Chronological(points) ==
  \A i \in 1..(Len(points) - 1) :
    \/ points[i].timestamp.secs < points[i + 1].timestamp.secs
    \/ /\ points[i].timestamp.secs = points[i + 1].timestamp.secs
       /\ points[i].timestamp.micro < points[i + 1].timestamp.micro

\* The record of a log entry comes back from get_session_details with the
\* same summary fields and the same focus points in the same order.
RoundTrip(entry) ==
  LET details == GetSessionDetails(db_conn, entry.id)
  IN /\ details.found
     /\ SameSummary(entry.record.summary, details)
     /\ details.focus_points = entry.record.focus_points

Representative(list, n) ==
  /\ \A i \in 1..Len(list) : list[i] \in 1..n
  /\ \A i \in 1..(Len(list) - 1) : list[i] < list[i + 1]
  /\ n > 0 => list # <<>> /\ list[1] = 1 /\ list[Len(list)] = n

\* C25: whatever the length of the buffers at session end, at most 500 focus
\* points and at most 100 snapshots are handed to save_session; each capped
\* list holds samples of the buffer in their original order, none twice,
\* the first and the last sample among them; a buffer of at most 500 focus
\* points (100 snapshots) is handed over unchanged.
C25_BuffersCapped ==
  buffers_capped =>
    /\ Len(session_focus_points) <= 500
    /\ Len(focus_data_snapshots) <= 100
    /\ Representative(session_focus_points, samples_collected)
    /\ Representative(focus_data_snapshots, samples_collected)
    /\ samples_collected <= 500 =>
         session_focus_points = [i \in 1..samples_collected |-> i]
    /\ samples_collected <= 100 =>
         focus_data_snapshots = [i \in 1..samples_collected |-> i]

\* A session of more than 500 samples has been capped.
C25_Witness ==
  /\ buffers_capped /\ samples_collected > 500
  /\ Len(session_focus_points) < samples_collected
  /\ Len(focus_data_snapshots) < samples_collected
  /\ session_focus_points[Len(session_focus_points)] = samples_collected

\* ---------------------------------------------------------------- C26
\* C26: while a session is active longest_focus_period never decreases, and
\* it is at least the length, in the whole seconds that secsTo counts, of
\* every focused interval the session has closed (at a focused -> distracted
\* record, at pause); the record handed to save_session carries a
\* longest_focus_period that is at least the length of every interval
\* closed up to then and of the interval still open when the session ends.
C26_LongestFocusPeriod ==
  [][/\ (session_active /\ session_active')
          => longest_focus_period' >= longest_focus_period
     /\ session_active'
          => longest_focus_period' >= SecsTo(0, closed_focus_ms')
     /\ (app_pc = "idle" /\ app_pc' = "saving")
          => /\ session_data'[1].longest_focus_period
                  >= SecsTo(0, closed_focus_ms')
             /\ session_data'[1].longest_focus_period
                  >= longest_focus_period]_vars

\* A session whose focused interval of a full second was still open at its
\* end is being saved with a longest focus period of 1 s.
C26_Witness ==
  /\ app_pc = "saving"
  /\ closed_focus_ms = MsPerSec
  /\ session_data[1].longest_focus_period = 1

\* ---------------------------------------------------------------- C27
\* C27: the blink ratio of an eye is its horizontal length divided by its
\* vertical length, and the horizontal length itself when the vertical
\* length is 0 (so that nothing is divided by zero).
C27_BlinkRatioGuard ==
  eye_pc = "measured" =>
    blinking_ratio =
      IF VerLineLength(eye_landmarks) = 0
      THEN Frac(HorLineLength(eye_landmarks), 1)
      ELSE Frac(HorLineLength(eye_landmarks), VerLineLength(eye_landmarks))

\* ---------------------------------------------------------------- C28
\* The change of sample i of s from the sample before it, and whether it
\* exceeds the threshold of 0.8 (the first sample has no predecessor).
Delta(s, i) == Abs(s[i] - s[i - 1])

OverAt(s, i) == i >= 2 /\ Delta(s, i) > 80 * RatioScale

\* The position of sample i in its run of consecutive over-threshold
\* samples: 0 when its own change is not over the threshold.
PosInRun(s, i) ==
  i - (CHOOSE j \in 1..i :
         ~OverAt(s, j) /\ \A k \in (j + 1)..i : OverAt(s, k))

\* The samples that confirm a saccade: every second one of each run.
Confirming(s) ==
  {i \in 1..Len(s) : OverAt(s, i) /\ PosInRun(s, i) % 2 = 0}

\* The maximal runs of over-threshold samples of s, each as the index before
\* its first sample and its length.
MaximalRuns(s) ==
  { <<a, m>> \in (1..Len(s)) \X (1..Len(s)) :
      /\ a + m <= Len(s)
      /\ ~OverAt(s, a)
      /\ \A i \in (a + 1)..(a + m) : OverAt(s, i)
      /\ a + m < Len(s) => ~OverAt(s, a + m + 1) }

\* C28: with the samples the segmenter took while tracking since the last
\* reset(), every maximal run of m consecutive samples whose change from the
\* sample before exceeds 0.8 has appended exactly m \div 2 saccades, the
\* recorded magnitudes are the changes of the confirming samples in order,
\* and the confirmation count is 0 after a saccade was recorded and after a
\* sample under the threshold (so that a single change over the threshold,
\* as in 1.0, 1.0, 3.0, 3.0, records nothing and leaves the count at 0).
C28_SaccadeRuns ==
  LET s == seg_fed
      confirming == SelectSeq([i \in 1..Len(s) |-> i],
                              LAMBDA i : i \in Confirming(s))
  IN /\ gaze_ratio_changes =
          [k \in 1..Len(confirming) |-> Delta(s, confirming[k])]
     /\ \A run \in MaximalRuns(s) :
          Cardinality({i \in Confirming(s) :
                         run[1] < i /\ i <= run[1] + run[2]})
            = run[2] \div 2
     /\ Len(gaze_ratio_changes) =
          Sum([k \in 1..Len(s) |->
                 IF \E m \in 1..Len(s) : <<k, m>> \in MaximalRuns(s)
                 THEN (CHOOSE m \in 1..Len(s) :
                         <<k, m>> \in MaximalRuns(s)) \div 2
                 ELSE 0])
     /\ saccade_confirmation_count =
          IF s = <<>> THEN 0 ELSE PosInRun(s, Len(s)) % 2
     /\ (Len(s) = 4 /\ s[1] = s[2] /\ OverAt(s, 3) /\ s[3] = s[4])
          => gaze_ratio_changes = <<>> /\ saccade_confirmation_count = 0

\* A run of four over-threshold samples has recorded two saccades.
C28_Witness ==
  /\ op = "track_gaze_changes" /\ tracking
  /\ Len(seg_fed) = 5
  /\ \A i \in 2..5 : OverAt(seg_fed, i)
  /\ Len(gaze_ratio_changes) = 2
  /\ gaze_ratio_changes[2] = Delta(seg_fed, 5)
  /\ saccade_confirmation_count = 0

\* ---------------------------------------------------------------- C29
\* C29: when a call of track_gaze_changes confirms a saccade while in a
\* fixation, a fixation is appended exactly when at least 0.3 s have passed
\* since fixation_start_time; otherwise nothing is appended; either way a
\* new fixation starts at the time of the confirmation.
C29_FixationOnConfirm ==
  [][(/\ op' = "track_gaze_changes"
      /\ Len(gaze_ratio_changes') = Len(gaze_ratio_changes) + 1
      /\ in_fixation)
       => /\ IF 10 * (now - fixation_start_time)
                  >= min_fixation_duration_tenths * MsPerSec
             THEN Len(fixation_durations') = Len(fixation_durations) + 1
             ELSE fixation_durations' = fixation_durations
          /\ fixation_start_time' = now
          /\ in_fixation']_vars

\* ---------------------------------------------------------------- C30
\* C30: the mean is never computed over an empty gaze history and pop(0)
\* never runs on an empty history, wherever reset() falls between the
\* append, the eviction and the mean of the capture thread.
C30_NoEmptyHistory ==
  [][/\ op' = "mean" => gaze_ratio_history # <<>>
     /\ op' = "pop" => gaze_ratio_history # <<>>]_vars

\* C32: no sequence of frames ends the capture loop abnormally: run() is left
\* only through stop() (the loop test), a camera that does not open or a failed
\* cap.read(), never through an exception escaping from a frame, and the
\* smoothed ratio handed to the segmenter is defined (also when the first face
\* ever processed is a blink).
C32_LoopEndsNormally ==
  [][ /\ pc' # "aborted"
      /\ (~LoopLeft /\ LoopLeft') => op' \in {"open_camera", "read_frame", "loop_exit"}
      /\ op' = "face" => avg_gaze_ratio' # None ]_vars

\* C33: every FocusData record the capture unit publishes (from
\* update_focus_data, start_tracking or reset) carries a focused field equal
\* to the tracker's is_focused at the moment of publication.
C33_FocusedFieldIsTrackerState ==
  [][\A i \in 1..Len(emitted_focus') :
       emitted_focus'[i].focused = is_focused']_vars

\* C38: after any sequence of frames, start_tracking(), pause_tracking() and
\* reset() run one at a time, distraction_start_time is set exactly when
\* is_focused is false, and the recorded distraction durations number
\* distraction_count when focused and distraction_count - 1 when distracted.
C38_DistractionBookkeeping ==
  /\ (distraction_start_time # None) <=> ~is_focused
  /\ Len(distraction_periods) =
       focus_data.distraction_count - (IF is_focused THEN 0 ELSE 1)

\* C34: after pause_session and then start_session with the session still
\* active (the resume), the capture loop is tracking again, so that the frames
\* processed after the resume update the focus tracker and publish FocusData.
C34_ResumeTracksAgain ==
  [][ /\ op' = "resume" => tracking'
      /\ ( /\ op = "resume" /\ ~paused /\ op' \in {"face", "no_face"}
           /\ pc' # "aborted" ) => emitted_focus' # <<>> ]_vars

\* C35: the focus_percentage of every session record end_session hands to
\* save_session lies between 0 and 100: the focus_duration it is computed
\* from counts only time since tracking was started, so it never exceeds the
\* session duration.
C35_FocusPercentageBounded ==
  \A i \in 1..Len(session_data) :
    LET pct == session_data[i].focus_percentage
    IN 0 <= pct.num /\ pct.num <= 100 * pct.den

\* C37: when save_session returns no id or raises during end_session, the
\* session stays active and the capture state is left as it was (the
\* distraction count and durations are retained); the capture state is reset
\* and session_active cleared only after a successful save; the
\* saving-in-progress flag is cleared in every outcome, so that End Session
\* can be pressed again.
C37_FailedSaveKeepsSession ==
  [][ /\ (app_pc = "saving" /\ op' = "save_failed") =>
           /\ session_active' /\ "end" \in buttons'
           /\ UNCHANGED <<tracker, segmenter, gaze_ratio_history>>
      /\ (session_active /\ ~session_active') =>
           (app_pc = "saving" /\ op' = "reset")
      /\ op' = "reset" => (app_pc = "saving" /\ ~session_active')
      /\ (app_pc = "saving" /\ app_pc' # "saving") =>
           (app_pc' = "idle" /\ op' \in {"save_failed", "reset"}) ]_vars

\* A save has failed in a session with a counted distraction: the session is
\* still active, the count is retained and End Session is enabled again.
C37_Witness ==
  /\ op = "save_failed" /\ app_pc = "idle" /\ session_active
  /\ focus_data.distraction_count > 0 /\ "end" \in buttons

\* C36: every payload handed over with set_focus_data while the advice thread
\* runs eventually leads to an advice_ready emission computed from that
\* payload or a newer one; a payload set while an earlier request is being
\* processed is not thrown away by the clearing step.
C36_EveryPayloadAnswered ==
  \A p \in Payloads :
    (payloads_set >= p) ~>
      \/ ~api_running
      \/ \E i \in 1..Len(advice_emitted) : advice_emitted[i].payload >= p

\* The capture thread is inside track_gaze_changes or update_focus_data.
InTrackerCall == pc \in {"track_test", "track_body", "focus_test", "focus_body"}

\* The items of the clean initial state that the claim names.
CleanTrackerState ==
  /\ focus_data.distraction_count = 0 /\ distraction_periods = <<>>
  /\ gaze_ratio_changes = <<>> /\ fixation_durations = <<>>
  /\ is_focused

\* C31: when reset() runs on the UI thread while the capture thread is
\* part-way through update_focus_data or track_gaze_changes, then once both
\* have finished and before any start_tracking() (tracking is off from
\* reset() to start_tracking()) the state is the clean initial state and the
\* record published last is the clean record: no record but the clean one is
\* published while tracking is off.
C31_ResetWinsRace ==
  [][ (~tracking' /\ ~InTrackerCall') =>
        /\ CleanTrackerState'
        /\ \A i \in 1..Len(emitted_focus') :
             emitted_focus'[i] = InitialFocusData ]_vars

====
